---- MODULE Spec2Model ----
(***************************************************************************)
(* The command relay of the Figma plugin: the host dispatcher              *)
(* (figma.ui.onmessage / handleCommand), the two chunked handlers          *)
(* (scanTextNodes, setMultipleTextContents) with their progress events,    *)
(* and the client-side Gateway and Channel Registry.                       *)
(*                                                                         *)
(* One action is one turn of the host's event loop: it runs a handler from *)
(* one real suspension (an awaited host call or timer) to the next.        *)
(***************************************************************************)
EXTENDS Integers, Sequences, FiniteSets, TLC

VARIABLES
  doc,      \* the document: node id -> [type, visible, children, readable, fontOk]
  fills,    \* node id -> "orig" | "hl"   (node.fills)
  chars,    \* node id -> text value      (node.characters)
  inbox,    \* execute-command messages on their way to the plugin, in arrival order
  cmds,     \* slot -> the execute-command message received there and its handler's locals
  respOrder, \* slots, in the order their Response Envelope was posted
  gateway,  \* the client-side Gateway: its Correlation Table, timers, futures
  registry  \* the Channel Registry: the peers of each channel, the last broadcast

vars == <<doc, fills, chars, inbox, cmds, respOrder, gateway, registry>>
hostVars == <<doc, fills, chars, inbox, cmds, respOrder>>

----------------------------------------------------------------------------
(* Bounds of the model *)

MaxCmds == 2          \* execute-command messages received in one run
MaxIter == 3          \* chunk iterations followed when the chunk loop never ends
MaxScanKids == 24     \* children of the scanned root in the chunked runs
MaxRepl == 11         \* entries of the text array in the chunked runs
MaxRequests == 2      \* requests one client connection makes
MaxPeers == 4         \* connections known to the Channel Registry
MaxTime == 2          \* ticks of the client's clock
MaxRelayed == 1       \* requests relayed to the plugin
MaxAttempts == 4      \* attempts of a retried operation
MaxToolCalls == 2     \* tool invocations
MaxLoopKids == 2      \* text nodes under the root scanned by the chunk loop

(* Program constants *)

DefaultChunkSize == 10  \* scanTextNodes: chunkSize = 10
CHUNK_SIZE == 5         \* setMultipleTextContents: const CHUNK_SIZE = 5

----------------------------------------------------------------------------
(* Values *)

None == {}
Some(x) == {x}
Val(o) == CHOOSE x \in o : TRUE

Min(a, b) == IF a < b THEN a ELSE b
Max(a, b) == IF a < b THEN b ELSE a

\* Array.prototype.slice(start, end) on a 1-based sequence, with JavaScript's
\* treatment of negative and out-of-range indices.
Slice(s, start, end) ==
  LET len == Len(s)
      from == IF start < 0 THEN Max(len + start, 0) ELSE Min(start, len)
      to == IF end < 0 THEN Max(len + end, 0) ELSE Min(end, len)
  IN IF to <= from THEN <<>> ELSE SubSeq(s, from + 1, to)

\* Math.ceil(n / d) for n >= 0 and d # 0.
CeilDiv(n, d) ==
  IF d > 0 THEN (n + d - 1) \div d ELSE 0 - (n \div (0 - d))

\* Mutant of ChunkProgress: the percentage is truncated (Math.floor), not rounded.
ChunkProgress_Truncates(k, g) ==
  IF g = 0 THEN 5
  ELSE IF g > 0 THEN (5 * g + 90 * k) \div g
  ELSE (0 - (5 * g + 90 * k)) \div (0 - g)

\* Math.round(5 + (k / g) * 90) for an integer g # 0: floor(x + 1/2).
\* g = 0 stands for Infinity (Math.ceil(n / 0), n > 0), where k / g is 0.
ChunkProgress(k, g) ==
  IF g = 0 THEN 5
  ELSE IF g > 0 THEN (11 * g + 180 * k) \div (2 * g)
  ELSE (0 - (11 * g + 180 * k)) \div (0 - 2 * g)

----------------------------------------------------------------------------
(* The document *)

Root == 0                 \* the id of the node the commands are addressed to
MissingNode == Root - 1   \* an id no node of the document has

\* No effect style: the empty effectStyleId of a node that has none.
NoStyle == ""

Node(t, kids, vis, rd, font) ==
  [type |-> t, children |-> kids, visible |-> vis, readable |-> rd, fontOk |-> font,
   effectStyleId |-> NoStyle]

\* 'effectStyleId' in node: slices carry no effect style.
SupportsEffectStyles(node) == node.type # "SLICE"

\* figma.getLocalEffectStylesAsync: the ids of the document's effect styles.
LocalEffectStyles == {"S:1", "S:2"}

\* figma.getNodeByIdAsync: the node or null.
Exists(d, id) == id \in DOMAIN d


\* A root frame whose children 1..Len(kinds) are, by kind:
\*   "T" a text node, "F" a frame, "I" an invisible text node,
\*   "X" a text node whose properties cannot be read (processing it throws),
\*   "W" a text node whose font cannot be loaded (writing it throws),
\*   "S" a slice.
FlatDoc(kinds) ==
  [id \in 0..Len(kinds) |->
     IF id = Root
     THEN Node("FRAME", [i \in 1..Len(kinds) |-> i], TRUE, TRUE, TRUE)
     ELSE Node(CASE kinds[id] = "F" -> "FRAME" [] kinds[id] = "S" -> "SLICE"
                 [] OTHER -> "TEXT", <<>>,
               kinds[id] # "I", kinds[id] # "X", kinds[id] # "W")]

\* Root > (1: frame > (3: text, 4: text whose visibility is vis4), 2: text).
NestedDoc(vis1, vis4) ==
  (0 :> Node("FRAME", <<1, 2>>, TRUE, TRUE, TRUE)) @@
  (1 :> Node("FRAME", <<3, 4>>, vis1, TRUE, TRUE)) @@
  (2 :> Node("TEXT", <<>>, TRUE, TRUE, TRUE)) @@
  (3 :> Node("TEXT", <<>>, TRUE, TRUE, TRUE)) @@
  (4 :> Node("TEXT", <<>>, vis4, TRUE, TRUE))

\* A document whose root is invisible.
HiddenDoc == (Root :> Node("FRAME", <<>>, FALSE, TRUE, TRUE))

\* A node of a document with components: key is the key of a COMPONENT,
\* componentId and mainKey the id and the key of the main component of an
\* INSTANCE, componentProperties whether the instance has component properties.
ComponentNode(t, kids, key, componentId, mainKey, componentProperties) ==
  [type |-> t, children |-> kids, visible |-> TRUE, readable |-> TRUE, fontOk |-> TRUE,
   effectStyleId |-> NoStyle, key |-> key, componentId |-> componentId,
   mainKey |-> mainKey, componentProperties |-> componentProperties]

PlainNode(t, kids) == ComponentNode(t, kids, "", "", "", FALSE)

\* figma.currentPage: the page the document's nodes are on.
CurrentPage == Root

\* The id the host gives to the next node it creates.
NewId(d) == (CHOOSE n \in DOMAIN d : \A m \in DOMAIN d : m <= n) + 1

\* node.parent: the node that has n among its children, if any (a page has
\* the document itself as its parent, which the model does not list).
Parent(d, n) ==
  LET ps == {m \in DOMAIN d : \E i \in DOMAIN d[m].children : d[m].children[i] = n}
  IN IF ps = {} THEN None ELSE Some(CHOOSE m \in ps : TRUE)

\* parent.appendChild(n): n leaves the children of its parent and becomes the
\* last child of p.
appendChild(d, p, n) ==
  LET without == [m \in DOMAIN d |->
                    [d[m] EXCEPT !.children = SelectSeq(@, LAMBDA c : c # n)]]
  IN [without EXCEPT ![p].children = Append(@, n)]

\* figma.createRectangle(), node.clone(), component.createInstance(): the new
\* node is in the document at once, as the last child of the current page (a
\* new page as a child of the document).
Created(d, id, node) ==
  LET with == (id :> node) @@ d
  IN IF node.type = "PAGE" THEN with
     ELSE [with EXCEPT ![CurrentPage].children = Append(@, id)]

\* 'appendChild' in node
SupportsChildren(node) == node.type \in {"PAGE", "FRAME", "COMPONENT", "INSTANCE"}

\* 'x' in node && 'y' in node
HasPosition(node) == node.type # "PAGE"

\* Every node of the subtree of n, in pre-order, whatever its visibility.
RECURSIVE PreOrder(_, _)
PreOrder(d, n) ==
  LET kids == d[n].children
      F[i \in 0..Len(kids)] == IF i = 0 THEN <<n>> ELSE F[i - 1] \o PreOrder(d, kids[i])
  IN F[Len(kids)]

\* Mutant of collectNodesToProcess: a node is listed with the path to its
\* parent, without its own name.
RECURSIVE collectNodesToProcess_ParentPath(_, _, _, _, _)
collectNodesToProcess_ParentPath(d, node, parentPath, depth, nodesToProcess) ==
  IF ~d[node].visible THEN nodesToProcess
  ELSE LET nodePath == Append(parentPath, node)
           pushed == Append(nodesToProcess,
                            [node |-> node, parentPath |-> parentPath, depth |-> depth])
           kids == d[node].children
           F[n \in 0..Len(kids)] ==
             IF n = 0 THEN pushed
             ELSE collectNodesToProcess_ParentPath(d, kids[n], nodePath, depth + 1, F[n - 1])
       IN F[Len(kids)]

\* collectNodesToProcess: the visible nodes of the subtree in pre-order, each
\* with the path to it (names are modelled by ids) and its depth.
RECURSIVE collectNodesToProcess(_, _, _, _, _)
collectNodesToProcess(d, node, parentPath, depth, nodesToProcess) ==
  IF ~d[node].visible THEN nodesToProcess
  ELSE LET nodePath == Append(parentPath, node)
           pushed == Append(nodesToProcess,
                            [node |-> node, parentPath |-> nodePath, depth |-> depth])
           kids == d[node].children
           F[n \in 0..Len(kids)] ==
             IF n = 0 THEN pushed
             ELSE collectNodesToProcess(d, kids[n], nodePath, depth + 1, F[n - 1])
       IN F[Len(kids)]

----------------------------------------------------------------------------
(* Messages and parameters *)

\* params of an execute-command message. has = FALSE: no params object.
\* An optional field is None (absent) or Some(value); text is None when it is
\* absent or not an array.
Params(nodeId, useChunking, chunkSize, text, commandId) ==
  [has |-> TRUE, nodeId |-> nodeId, useChunking |-> useChunking,
   chunkSize |-> chunkSize, text |-> text, commandId |-> commandId,
   effectStyleId |-> None, parentId |-> None, x |-> None, y |-> None,
   componentKey |-> None]

NoParams ==
  [has |-> FALSE, nodeId |-> None, useChunking |-> None, chunkSize |-> None,
   text |-> None, commandId |-> None, effectStyleId |-> None, parentId |-> None,
   x |-> None, y |-> None, componentKey |-> None]

\* An entry of the text array: an object with optional nodeId and text, or null.
Entry(nodeId, text) == [null |-> FALSE, nodeId |-> nodeId, text |-> text]
NullEntry == [null |-> TRUE, nodeId |-> None, text |-> None]

Msg(id, command, params) == [id |-> id, command |-> command, params |-> params]

\* generateCommandId: a fresh random id; slot k's is modelled as -k, apart
\* from every id a caller supplies.
generateCommandId(k) == 0 - k

\* The handler of slot k, as started by figma.ui.onmessage for msg.
NewCmd(k, msg) ==
  [slot |-> k, msgId |-> msg.id, command |-> msg.command, params |-> msg.params,
   pc |-> "received", out |-> <<>>,
   groups |-> <<>>,   \* the chunks taken so far (kept for the properties)
   yields |-> 0,      \* the pauses taken between chunks (kept for the properties)
   turns |-> 0,       \* the turns of the event loop the handler has run in
   commandId |-> IF msg.params.commandId # None THEN Val(msg.params.commandId)
                 ELSE generateCommandId(k),
   \* scanTextNodes
   node |-> Root, chunkSize |-> 0, nodes |-> <<>>, i |-> 0, processedNodes |-> 0,
   chunksProcessed |-> 0, allTextNodes |-> <<>>, chunkNodes |-> <<>>,
   chunkTextNodes |-> <<>>, j |-> 0, originalFills |-> "orig",
   \* setMultipleTextContents
   chunkIndex |-> 0, items |-> <<>>, results |-> <<>>, successCount |-> 0,
   failureCount |-> 0,
   \* setEffectStyleId: the style asked for, the position of nodePromise
   \* ("idle", "lookup", "styles", "resolved", "rejected"), the 8-second timer
   \* ("unset", "armed", "fired", "cleared") and whether this handler has
   \* assigned node.effectStyleId (kept for the properties)
   styleId |-> NoStyle, seq |-> "idle", timer |-> "unset", applied |-> FALSE,
   \* flattenNode: the seconds from scheduling the two timers to the end of
   \* node.flatten() (kept for the properties)
   elapsed |-> 0,
   \* createRectangle, cloneNode, createComponentInstance: the node this
   \* handler has created
   created |-> None]

\* sendProgressUpdate: one Progress Event posted to the UI.
sendProgressUpdate(st, status, progress, totalItems, processedItems) ==
  [st EXCEPT !.c.out = Append(@,
     [type |-> "command_progress", commandId |-> st.c.commandId,
      commandType |-> st.c.command, status |-> status, progress |-> progress,
      totalItems |-> totalItems, processedItems |-> processedItems])]

\* Mutant of PostResult: the envelope carries the progress correlation id
\* (commandId) in place of the id of the message.
PostResult_CommandId(st, result) ==
  [st EXCEPT !.c.out = Append(@, [type |-> "command-result", id |-> st.c.commandId,
                                   result |-> result]),
             !.c.pc = "done"]

\* Mutant of PostResult: the envelope is numbered by the order in which the
\* responses are posted.
PostResult_ArrivalOrder(st, result) ==
  [st EXCEPT !.c.out = Append(@, [type |-> "command-result", id |-> Len(respOrder) + 1,
                                   result |-> result]),
             !.c.pc = "done"]

\* figma.ui.onmessage, execute-command: the handler returned result.
PostResult(st, result) ==
  [st EXCEPT !.c.out = Append(@, [type |-> "command-result", id |-> st.c.msgId,
                                   result |-> result]),
             !.c.pc = "done"]

\* Mutant of PostError: the result is posted after the catch block as well.
PostError_ThenResult(st, error) ==
  [st EXCEPT !.c.out = @ \o <<[type |-> "command-error", id |-> st.c.msgId,
                                error |-> error],
                               [type |-> "command-result", id |-> st.c.msgId,
                                result |-> error]>>,
             !.c.pc = "done"]

\* Mutant of PostError: no catch block; the rejection of the handler is lost
\* and nothing is posted.
PostError_Uncaught(st, error) == [st EXCEPT !.c.pc = "crashed"]

\* figma.ui.onmessage, execute-command: the handler threw; error is its message.
PostError(st, error) ==
  [st EXCEPT !.c.out = Append(@, [type |-> "command-error", id |-> st.c.msgId,
                                   error |-> error]),
             !.c.pc = "done"]

IsResponse(m) == m.type \in {"command-result", "command-error"}
IsProgress(m) == m.type = "command_progress"

----------------------------------------------------------------------------
(* scanTextNodes.  st = [c |-> the handler's locals, fills, chars, doc]. *)

\* Math.ceil(totalNodes / chunkSize). 0 stands for Infinity (chunkSize = 0);
\* the value is used only inside the chunk loop, where totalNodes > 0.
TotalChunks(c) ==
  IF c.chunkSize = 0 THEN 0 ELSE CeilDiv(Len(c.nodes), c.chunkSize)

\* processTextNode's safeTextNode (the fields the scan's callers compare).
TextNodeInfo(info) ==
  [id |-> info.node, path |-> info.parentPath, depth |-> info.depth]

\* Mutant of ScanComplete: the completed event is emitted once the result has
\* been posted.
ScanComplete_ResultFirst(st) ==
  LET c == st.c
      res == PostResult(st, [success |-> TRUE, totalNodes |-> Len(c.allTextNodes),
                             processedNodes |-> c.processedNodes,
                             chunks |-> c.chunksProcessed,
                             textNodes |-> c.allTextNodes, commandId |-> c.commandId])
  IN sendProgressUpdate(res, "completed", 100, Len(c.nodes), c.processedNodes)

\* Mutant of ScanComplete: an error event follows the completed one.
ScanComplete_ThenError(st) ==
  LET c == st.c
      ev == sendProgressUpdate(st, "completed", 100, Len(c.nodes), c.processedNodes)
  IN PostResult(sendProgressUpdate(ev, "error", 0, 0, 0),
                [success |-> TRUE, totalNodes |-> Len(c.allTextNodes),
                 processedNodes |-> c.processedNodes, chunks |-> c.chunksProcessed,
                 textNodes |-> c.allTextNodes, commandId |-> c.commandId])

\* The completed event and the returned aggregate of the chunked scan.
ScanComplete(st) ==
  LET c == st.c
      ev == sendProgressUpdate(st, "completed", 100, Len(c.nodes), c.processedNodes)
  IN PostResult(ev, [success |-> TRUE, totalNodes |-> Len(c.allTextNodes),
                     processedNodes |-> c.processedNodes, chunks |-> c.chunksProcessed,
                     textNodes |-> c.allTextNodes, commandId |-> c.commandId])

\* Mutant of ScanChunkEnd: processedNodes grows by chunkSize, not by the
\* number of nodes of the chunk.
ScanChunkEnd_AddsChunkSize(st) ==
  LET c == st.c
      c1 == [c EXCEPT !.allTextNodes = @ \o c.chunkTextNodes,
                      !.processedNodes = @ + c.chunkSize,
                      !.chunksProcessed = @ + 1]
      ev == sendProgressUpdate([st EXCEPT !.c = c1], "in_progress",
                               ChunkProgress(c1.chunksProcessed, TotalChunks(c1)),
                               Len(c1.nodes), c1.processedNodes)
  IN IF c.i + c.chunkSize < Len(c.nodes)
     THEN [ev EXCEPT !.c.pc = "scan_chunk_delay", !.c.yields = @ + 1]
     ELSE ScanComplete([ev EXCEPT !.c.i = @ + c.chunkSize])

\* After the last node of a chunk: add its results, report, then pause before
\* the next chunk or leave the loop.
ScanChunkEnd(st) ==
  LET c == st.c
      c1 == [c EXCEPT !.allTextNodes = @ \o c.chunkTextNodes,
                      !.processedNodes = @ + Len(c.chunkNodes),
                      !.chunksProcessed = @ + 1]
      ev == sendProgressUpdate([st EXCEPT !.c = c1], "in_progress",
                               ChunkProgress(c1.chunksProcessed, TotalChunks(c1)),
                               Len(c1.nodes), c1.processedNodes)
  IN IF c.i + c.chunkSize < Len(c.nodes)
     THEN [ev EXCEPT !.c.pc = "scan_chunk_delay", !.c.yields = @ + 1]
     ELSE ScanComplete([ev EXCEPT !.c.i = @ + c.chunkSize])

\* The node loop of a chunk, from node j up to its next await.
ScanNode(st) ==
  LET c == st.c
  IN IF c.j > Len(c.chunkNodes) THEN ScanChunkEnd(st)
     ELSE LET n == c.chunkNodes[c.j].node
          IN IF st.doc[n].type = "TEXT" /\ st.doc[n].readable
             THEN [st EXCEPT !.c.originalFills = st.fills[n],
                             !.fills[n] = "hl",
                             !.c.pc = "scan_highlight"]
             ELSE [st EXCEPT !.c.pc = "scan_node_delay"]

\* processTextNode after delay(100): restore the fills, return the record.
ScanAfterHighlight(st) ==
  LET c == st.c
      info == c.chunkNodes[c.j]
  IN [st EXCEPT !.fills[info.node] = c.originalFills,
                !.c.chunkTextNodes = Append(@, TextNodeInfo(info)),
                !.c.pc = "scan_node_delay"]

\* After delay(5): the next node of the chunk.
ScanAfterNodeDelay(st) == ScanNode([st EXCEPT !.c.j = @ + 1])

\* The head of the chunk loop: for (i = ...; i < totalNodes; ...).
ScanLoopHead(st) ==
  LET c == st.c
      totalNodes == Len(c.nodes)
  IN IF c.i < totalNodes
     THEN LET chunkEnd == Min(c.i + c.chunkSize, totalNodes)
              ev == sendProgressUpdate(st, "in_progress",
                                       ChunkProgress(c.chunksProcessed, TotalChunks(c)),
                                       totalNodes, c.processedNodes)
          IN ScanNode([ev EXCEPT !.c.chunkNodes = Slice(c.nodes, c.i, chunkEnd),
                                 !.c.groups = Append(@, Slice(c.nodes, c.i, chunkEnd)),
                                 !.c.chunkTextNodes = <<>>,
                                 !.c.j = 1])
     ELSE ScanComplete(st)

\* After delay(50): i += chunkSize and the next chunk.
ScanAfterChunkDelay(st) == ScanLoopHead([st EXCEPT !.c.i = @ + st.c.chunkSize])

\* Mutant of findTextNodes: an invisible node is left out, but its children
\* are still visited.
RECURSIVE findTextNodes_DescendsHidden(_, _, _, _, _)
findTextNodes_DescendsHidden(d, node, parentPath, depth, visited) ==
  LET nodePath == Append(parentPath, node)
      here == IF ~d[node].visible THEN visited
              ELSE Append(visited, [node |-> node, parentPath |-> nodePath, depth |-> depth])
      kids == d[node].children
      F[n \in 0..Len(kids)] ==
        IF n = 0 THEN here
        ELSE findTextNodes_DescendsHidden(d, kids[n], nodePath, depth + 1, F[n - 1])
  IN F[Len(kids)]

\* findTextNodes: the nodes it visits, in order (the same walk: invisible
\* subtrees skipped, a node before its children).
RECURSIVE findTextNodes(_, _, _, _, _)
findTextNodes(d, node, parentPath, depth, visited) ==
  IF ~d[node].visible THEN visited
  ELSE LET nodePath == Append(parentPath, node)
           here == Append(visited,
                          [node |-> node, parentPath |-> nodePath, depth |-> depth])
           kids == d[node].children
           F[n \in 0..Len(kids)] ==
             IF n = 0 THEN here
             ELSE findTextNodes(d, kids[n], nodePath, depth + 1, F[n - 1])
       IN F[Len(kids)]

\* The unchunked scan from visit j up to its next await (delay(500) at a
\* readable text node) or to its end.
ScanPlain(st) ==
  LET c == st.c
      next == {k \in c.j..Len(c.nodes) :
                 st.doc[c.nodes[k].node].type = "TEXT" /\ st.doc[c.nodes[k].node].readable}
  IN IF next = {}
     THEN LET count == Len(c.allTextNodes)
              ev == sendProgressUpdate(st, "completed", 100, count, count)
          IN PostResult(ev, [success |-> TRUE, count |-> count,
                             textNodes |-> c.allTextNodes, commandId |-> c.commandId])
     ELSE LET k == CHOOSE x \in next : \A y \in next : x <= y
              n == c.nodes[k].node
          IN [st EXCEPT !.c.j = k,
                        !.c.originalFills = st.fills[n],
                        !.fills[n] = "hl",
                        !.c.pc = "plain_highlight"]

\* findTextNodes after delay(500): restore the fills, push the record.
ScanPlainAfterHighlight(st) ==
  LET c == st.c
      info == c.nodes[c.j]
  IN ScanPlain([st EXCEPT !.fills[info.node] = c.originalFills,
                          !.c.allTextNodes = Append(@, TextNodeInfo(info)),
                          !.c.j = @ + 1])

\* scanTextNodes up to its first await, figma.getNodeByIdAsync(nodeId).
\* params.nodeId of absent params throws; an absent nodeId is looked up as
\* it is (undefined), and no node has that id.
ScanStart(st) ==
  IF ~st.c.params.has THEN PostError(st, "TypeError")
  ELSE [st EXCEPT !.c.pc = "scan_lookup",
                  !.c.node = IF st.c.params.nodeId = None THEN MissingNode
                             ELSE Val(st.c.params.nodeId),
                  !.c.chunkSize = IF st.c.params.chunkSize = None THEN DefaultChunkSize
                                  ELSE Val(st.c.params.chunkSize)]

\* scanTextNodes once the node lookup has answered.
ScanAfterLookup(st) ==
  LET c == st.c
      useChunking == IF c.params.useChunking = None THEN TRUE
                     ELSE Val(c.params.useChunking)
  IN IF ~Exists(st.doc, c.node)
     THEN PostError(sendProgressUpdate(st, "error", 0, 0, 0), "Node not found")
     ELSE IF ~useChunking
     THEN LET ev == sendProgressUpdate(st, "started", 0, 1, 0)
          IN ScanPlain([ev EXCEPT !.c.nodes = findTextNodes(st.doc, c.node, <<>>, 0, <<>>),
                                  !.c.j = 1])
     ELSE LET ev1 == sendProgressUpdate(st, "started", 0, 0, 0)
              nodesToProcess == collectNodesToProcess(st.doc, c.node, <<>>, 0, <<>>)
              ev2 == sendProgressUpdate(ev1, "in_progress", 5, Len(nodesToProcess), 0)
          IN ScanLoopHead([ev2 EXCEPT !.c.nodes = nodesToProcess,
                                      !.c.i = 0,
                                      !.c.processedNodes = 0,
                                      !.c.chunksProcessed = 0])

----------------------------------------------------------------------------
(* setMultipleTextContents *)

\* Mutant of Chunks: text.slice(i, i + CHUNK_SIZE + 1), so that consecutive
\* chunks share an entry.
Chunks_Overlap(text) ==
  [n \in 1..CeilDiv(Len(text), CHUNK_SIZE) |->
     Slice(text, (n - 1) * CHUNK_SIZE, (n - 1) * CHUNK_SIZE + CHUNK_SIZE + 1)]

\* text.slice(i, i + CHUNK_SIZE) for i = 0, CHUNK_SIZE, ...: the chunks.
Chunks(text) ==
  [n \in 1..CeilDiv(Len(text), CHUNK_SIZE) |->
     Slice(text, (n - 1) * CHUNK_SIZE, (n - 1) * CHUNK_SIZE + CHUNK_SIZE)]

\* A per-entry outcome; nodeId None is the literal 'unknown'.
Failure(nodeId, error) ==
  [success |-> FALSE, nodeId |-> nodeId, error |-> error,
   originalText |-> None, translatedText |-> None]

Success(nodeId, originalText, translatedText) ==
  [success |-> TRUE, nodeId |-> nodeId, error |-> "",
   originalText |-> Some(originalText), translatedText |-> Some(translatedText)]

Item(pc, entry, result) ==
  [pc |-> pc, entry |-> entry, result |-> result, originalFills |-> "orig",
   originalText |-> 0]

\* chunk.map(async (replacement) => ...): an entry's callback up to its
\* first await. Reading a field of a null entry throws before the try block,
\* so the callback's promise is rejected.
ItemBegin(replacement) ==
  IF replacement.null THEN Item("rejected", replacement, Failure(None, "TypeError"))
  ELSE IF replacement.nodeId = None \/ replacement.text = None
  THEN Item("done", replacement, Failure(replacement.nodeId, "Missing nodeId or text"))
  ELSE Item("lookup", replacement, Failure(None, ""))

\* The completed event and the returned aggregate.
SmComplete(st) ==
  LET c == st.c
      total == Len(Val(c.params.text))
      ev == sendProgressUpdate(st, "completed", 100, total,
                               c.successCount + c.failureCount)
  IN PostResult(ev, [success |-> c.successCount > 0,
                     nodeId |-> Val(c.params.nodeId),
                     replacementsApplied |-> c.successCount,
                     replacementsFailed |-> c.failureCount,
                     totalReplacements |-> total,
                     results |-> c.results,
                     completedInChunks |-> Len(Chunks(Val(c.params.text))),
                     commandId |-> c.commandId])

\* Mutant of SmChunkEnd: the pause is taken after every chunk, the last one
\* included.
SmChunkEnd_AlwaysYields(st) ==
  LET c == st.c
      text == Val(c.params.text)
      chunkResults == [n \in 1..Len(c.items) |-> c.items[n].result]
      ok == Cardinality({n \in 1..Len(chunkResults) : chunkResults[n].success})
      c1 == [c EXCEPT !.successCount = @ + ok,
                      !.failureCount = @ + (Len(chunkResults) - ok),
                      !.results = @ \o chunkResults]
      ev == sendProgressUpdate([st EXCEPT !.c = c1], "in_progress",
                               ChunkProgress(c.chunkIndex + 1, Len(Chunks(text))),
                               Len(text), c1.successCount + c1.failureCount)
  IN [ev EXCEPT !.c.pc = "sm_chunk_delay", !.c.yields = @ + 1]

\* After Promise.all of a chunk: tally, report, then pause before the next
\* chunk or finish.
SmChunkEnd(st) ==
  LET c == st.c
      text == Val(c.params.text)
      chunkResults == [n \in 1..Len(c.items) |-> c.items[n].result]
      ok == Cardinality({n \in 1..Len(chunkResults) : chunkResults[n].success})
      c1 == [c EXCEPT !.successCount = @ + ok,
                      !.failureCount = @ + (Len(chunkResults) - ok),
                      !.results = @ \o chunkResults]
      ev == sendProgressUpdate([st EXCEPT !.c = c1], "in_progress",
                               ChunkProgress(c.chunkIndex + 1, Len(Chunks(text))),
                               Len(text), c1.successCount + c1.failureCount)
  IN IF c.chunkIndex < Len(Chunks(text)) - 1
     THEN [ev EXCEPT !.c.pc = "sm_chunk_delay", !.c.yields = @ + 1]
     ELSE SmComplete([ev EXCEPT !.c.chunkIndex = @ + 1])

\* The head of the chunk loop: report, start every entry of the chunk, and
\* await Promise.all of them.
SmLoopHead(st) ==
  LET c == st.c
      text == Val(c.params.text)
      chunks == Chunks(text)
  IN IF c.chunkIndex < Len(chunks)
     THEN LET chunk == chunks[c.chunkIndex + 1]
              ev == sendProgressUpdate(st, "in_progress",
                                       ChunkProgress(c.chunkIndex, Len(chunks)),
                                       Len(text), c.successCount + c.failureCount)
              started == [ev EXCEPT !.c.items = [n \in 1..Len(chunk) |-> ItemBegin(chunk[n])],
                                    !.c.groups = Append(@, chunk)]
              its == started.c.items
          IN IF \E n \in 1..Len(its) : its[n].pc = "rejected"
             THEN PostError(started, "TypeError")
             ELSE IF \A n \in 1..Len(its) : its[n].pc = "done"
             THEN SmChunkEnd(started)
             ELSE [started EXCEPT !.c.pc = "sm_wait"]
     ELSE SmComplete(st)

\* After delay(1000): chunkIndex++ and the next chunk.
SmAfterChunkDelay(st) == SmLoopHead([st EXCEPT !.c.chunkIndex = @ + 1])

\* Mutant of SmStart: no in_progress event once the chunks are planned.
SmStart_NoPlanningEvent(st) ==
  LET c == st.c
  IN IF ~c.params.has THEN PostError(st, "TypeError")
     ELSE IF c.params.nodeId = None \/ c.params.text = None
     THEN PostError(sendProgressUpdate(st, "error", 0, 0, 0),
                    "Missing required parameters")
     ELSE LET n == Len(Val(c.params.text))
              ev1 == sendProgressUpdate(st, "started", 0, n, 0)
          IN SmLoopHead([ev1 EXCEPT !.c.chunkIndex = 0])

\* setMultipleTextContents up to its first await.
SmStart(st) ==
  LET c == st.c
  IN IF ~c.params.has THEN PostError(st, "TypeError")
     ELSE IF c.params.nodeId = None \/ c.params.text = None
     THEN PostError(sendProgressUpdate(st, "error", 0, 0, 0),
                    "Missing required parameters")
     ELSE LET n == Len(Val(c.params.text))
              ev1 == sendProgressUpdate(st, "started", 0, n, 0)
              ev2 == sendProgressUpdate(ev1, "in_progress", 5, n, 0)
          IN SmLoopHead([ev2 EXCEPT !.c.chunkIndex = 0])

\* Mutant of SmItemSettled: Promise.any in place of Promise.all; the handler
\* goes on as soon as one entry of the chunk has settled.
SmItemSettled_Any(st) ==
  IF st.c.pc = "sm_wait" /\ \E n \in 1..Len(st.c.items) : st.c.items[n].pc = "done"
  THEN SmChunkEnd(st)
  ELSE st

\* Promise.all of the chunk resolves when its last entry settles; the handler
\* goes on only if it is still awaiting it.
SmItemSettled(st) ==
  IF st.c.pc = "sm_wait" /\ \A n \in 1..Len(st.c.items) : st.c.items[n].pc = "done"
  THEN SmChunkEnd(st)
  ELSE st

\* An entry's callback once figma.getNodeByIdAsync has answered: the checks,
\* the highlight, and setTextContent up to its own node lookup.
ItemAfterLookup(st, n) ==
  LET it == st.c.items[n]
      id == Val(it.entry.nodeId)
  IN IF ~Exists(st.doc, id)
     THEN [st EXCEPT !.c.items[n].pc = "done",
                     !.c.items[n].result = Failure(Some(id), "Node not found")]
     ELSE IF st.doc[id].type # "TEXT"
     THEN [st EXCEPT !.c.items[n].pc = "done",
                     !.c.items[n].result = Failure(Some(id), "Node is not a text node")]
     ELSE [st EXCEPT !.c.items[n].originalText = st.chars[id],
                     !.c.items[n].originalFills = st.fills[id],
                     !.fills[id] = "hl",
                     !.c.items[n].pc = "apply"]

\* Mutant of ItemApply: a failure of setTextContent is logged and the entry
\* goes on as if the text had been set.
ItemApply_SwallowsError(st, n) ==
  LET it == st.c.items[n]
      id == Val(it.entry.nodeId)
  IN IF ~st.doc[id].fontOk
     THEN [st EXCEPT !.c.items[n].pc = "restore"]
     ELSE [st EXCEPT !.chars[id] = Val(it.entry.text),
                     !.c.items[n].pc = "restore"]

\* setTextContent (1644-1678) from its lookup on: load the font, set the
\* characters; its failure is caught by the entry's catch block.
ItemApply(st, n) ==
  LET it == st.c.items[n]
      id == Val(it.entry.nodeId)
  IN IF ~st.doc[id].fontOk
     THEN [st EXCEPT !.c.items[n].pc = "done",
                     !.c.items[n].result = Failure(Some(id), "Error applying replacement")]
     ELSE [st EXCEPT !.chars[id] = Val(it.entry.text),
                     !.c.items[n].pc = "restore"]

\* After delay(500): restore the fills and return the success entry.
ItemRestore(st, n) ==
  LET it == st.c.items[n]
      id == Val(it.entry.nodeId)
  IN [st EXCEPT !.fills[id] = it.originalFills,
                !.c.items[n].pc = "done",
                !.c.items[n].result = Success(Some(id), it.originalText, Val(it.entry.text))]

----------------------------------------------------------------------------
(* setEffectStyleId.  An error message is the sequence of its parts (the
   literal pieces of the template and the ids put between them). *)

\* The words handlers look for, and the parts in which each occurs.
Occurs ==
  { <<"Timeout while setting effect style ID (8s). The operation took too long to complete.",
      "Timeout">>,
    <<"Timeout while setting effect style ID (8s). The operation took too long to complete.",
      "style">>,
    <<"Node not found with ID: ", "Node">>,
    <<"Node not found with ID: ", "not found">>,
    <<"Node with ID ", "Node">>,
    <<" does not support effect styles", "does not support">>,
    <<" does not support effect styles", "style">>,
    <<"Effect style not found with ID: ", "style">>,
    <<"Effect style not found with ID: ", "not found">>,
    <<". Available styles: ", "style">>,
    <<"Timeout shadow", "Timeout">>,
    <<"\" not found. Tried: import, local search, and instance cloning. Ensure the component is published and accessible.",
      "not found">> }

\* error.message.includes(word)
Includes(message, word) == \E n \in 1..Len(message) : <<message[n], word>> \in Occurs

\* The message of the timer's rejection.
TimerMessage ==
  <<"Timeout while setting effect style ID (8s). The operation took too long to complete.">>

TimedOutError ==
  "The operation timed out after 8 seconds. This could happen with complex nodes or effects. Try with a simpler node or effect style."

\* Mutant of EsCatch: every error of the race is reported as a timeout.
EsCatch_AlwaysTimeout(st, message) == PostError(st, TimedOutError)

\* The catch block of setEffectStyleId: the error thrown in place of message.
EsCatch(st, message) ==
  PostError(st,
    CASE Includes(message, "timeout") \/ Includes(message, "Timeout") -> TimedOutError
      [] Includes(message, "not found") /\ Includes(message, "Node") ->
           "Node with ID \"" \o ToString(st.c.node) \o "\" not found. Make sure the node exists in the current document."
      [] Includes(message, "not found") /\ Includes(message, "style") ->
           "Effect style with ID \"" \o st.c.styleId \o "\" not found. Make sure the style exists in your local styles."
      [] Includes(message, "does not support") ->
           "The selected node type does not support effect styles. Only certain node types like frames, components, and instances can have effect styles."
      [] OTHER -> "Error setting effect style ID")

\* Mutant of EsSettle: the first settlement of nodePromise or of the timer
\* does not close the race; a later one is answered as well.
EsSettle_Twice(st, ok, value) ==
  LET cleared == [st EXCEPT !.c.timer = IF @ = "armed" THEN "cleared" ELSE @]
  IN IF ok THEN PostResult(cleared, value) ELSE EsCatch(cleared, value)

\* Promise.race(...).finally(clearTimeout): the first of nodePromise and the
\* timer to settle settles the race, the timer is cleared, and the handler
\* returns the result or goes through its catch block. A settlement that
\* comes after the race has settled is dropped.
EsSettle(st, ok, value) ==
  IF st.c.pc # "es_race" THEN st
  ELSE LET cleared == [st EXCEPT !.c.timer = IF @ = "armed" THEN "cleared" ELSE @]
       IN IF ok THEN PostResult(cleared, value) ELSE EsCatch(cleared, value)

\* setEffectStyleId up to its first await: the parameter checks, the timer,
\* and nodePromise started (it awaits figma.getNodeByIdAsync).
EsStart(st) ==
  LET p == st.c.params
  IN IF ~p.has \/ p.nodeId = None THEN PostError(st, "Missing nodeId parameter")
     ELSE IF p.effectStyleId = None \/ p.effectStyleId = Some(NoStyle)
     THEN PostError(st, "Missing effectStyleId parameter")
     ELSE [st EXCEPT !.c.node = Val(p.nodeId), !.c.styleId = Val(p.effectStyleId),
                     !.c.timer = "armed", !.c.seq = "lookup", !.c.pc = "es_race"]

\* nodePromise once figma.getNodeByIdAsync has answered.
EsAfterLookup(st) ==
  LET c == st.c
  IN IF ~Exists(st.doc, c.node)
     THEN EsSettle([st EXCEPT !.c.seq = "rejected"], FALSE,
                   <<"Node not found with ID: ", ToString(c.node)>>)
     ELSE IF ~SupportsEffectStyles(st.doc[c.node])
     THEN EsSettle([st EXCEPT !.c.seq = "rejected"], FALSE,
                   <<"Node with ID ", ToString(c.node), " does not support effect styles">>)
     ELSE [st EXCEPT !.c.seq = "styles"]

\* nodePromise once figma.getLocalEffectStylesAsync has answered: the style is
\* looked for and assigned to the node.
EsAfterStyles(st) ==
  LET c == st.c
  IN IF c.styleId \notin LocalEffectStyles
     THEN EsSettle([st EXCEPT !.c.seq = "rejected"], FALSE,
                   <<"Effect style not found with ID: ", c.styleId, ". Available styles: ",
                     ToString(Cardinality(LocalEffectStyles))>>)
     ELSE EsSettle([st EXCEPT !.doc[c.node].effectStyleId = c.styleId,
                              !.c.applied = TRUE, !.c.seq = "resolved"],
                   TRUE, [id |-> c.node, effectStyleId |-> c.styleId])

\* The callback of the 8-second timer: timeoutPromise rejects.
EsTimeout(st) == EsSettle([st EXCEPT !.c.timer = "fired"], FALSE, TimerMessage)

----------------------------------------------------------------------------
(* flattenNode *)

\* The text of an error message: its parts put together.
RECURSIVE MessageText(_)
MessageText(message) ==
  IF message = <<>> THEN "" ELSE Head(message) \o MessageText(Tail(message))

\* The delay of the timeout timer, in seconds.
FlattenTimeoutS == 8

\* The seconds a call of node.flatten() takes: well under the timeout, or over it.
FlattenTimes == {1, FlattenTimeoutS + 1}

flattenableTypes == {"VECTOR", "BOOLEAN_OPERATION", "STAR", "POLYGON", "ELLIPSE", "RECTANGLE"}

FlattenTimedOutError ==
  "The flatten operation timed out. This usually happens with complex nodes. Try simplifying the node first or breaking it into smaller parts."

\* The catch block of flattenNode: the error thrown in place of message.
FlCatch(st, message) ==
  PostError(st, IF Includes(message, "timed out") THEN FlattenTimedOutError
                ELSE "Error flattening node: " \o MessageText(message))

\* flattenNode up to its first await.
FlStart(st) ==
  LET p == st.c.params
  IN IF ~p.has \/ p.nodeId = None THEN PostError(st, "Missing nodeId parameter")
     ELSE [st EXCEPT !.c.node = Val(p.nodeId), !.c.pc = "fl_lookup"]

\* flattenNode once figma.getNodeByIdAsync has answered: the checks, then the
\* 8-second timer (its rejection reads 'Flatten operation timed out after 8
\* seconds. ...') and the 0-millisecond timer are set, in this order, and the
\* handler awaits the race. hasFlatten: whether the node has a flatten method.
FlAfterLookup(st, hasFlatten) ==
  LET c == st.c
  IN IF ~Exists(st.doc, c.node)
     THEN FlCatch(st, <<"Node not found with ID: ", ToString(c.node)>>)
     ELSE IF st.doc[c.node].type \notin flattenableTypes
     THEN FlCatch(st, <<"Node with ID ", ToString(c.node), " and type ", st.doc[c.node].type,
                        " cannot be flattened. Only vector-based nodes can be flattened.">>)
     ELSE IF ~hasFlatten
     THEN FlCatch(st, <<"Node with ID ", ToString(c.node),
                        " does not support the flatten operation.">>)
     ELSE [st EXCEPT !.c.timer = "armed", !.c.seq = "scheduled", !.c.pc = "fl_race"]

\* The callback of the 0-millisecond timer, and the microtasks that follow it.
\* It is due before the 8-second timer, so it runs first. node.flatten() is a
\* synchronous call: it takes took seconds, during which no other callback
\* runs, and returns the flattened node (ok) or throws. flattenPromise
\* settles, the race settles with it, finally() clears the 8-second timer, and
\* the handler returns or goes through its catch block, all before the next
\* timer callback can run.
FlRun(st, took, ok) ==
  LET ran == [st EXCEPT !.c.elapsed = took, !.c.seq = "ran", !.c.timer = "cleared"]
  IN IF ok
     THEN PostResult([ran EXCEPT !.doc[st.c.node].type = "VECTOR"],
                     [id |-> st.c.node, type |-> "VECTOR"])
     ELSE FlCatch(ran, <<"flatten failed">>)

----------------------------------------------------------------------------
(* createRectangle and cloneNode *)

\* The handler's state with the node id created as node.
WithCreated(st, id, node) ==
  [st EXCEPT !.doc = Created(st.doc, id, node),
             !.fills = (id :> "orig") @@ st.fills,
             !.chars = (id :> 0) @@ st.chars,
             !.c.created = Some(id)]

\* createRectangle up to its first await: the rectangle is created, then, if
\* parentId is given, the parent is looked up.
CrStart(st) ==
  LET p == st.c.params
      id == NewId(st.doc)
      made == WithCreated(st, id, PlainNode("RECTANGLE", <<>>))
  IN IF p.parentId = None
     THEN PostResult([made EXCEPT !.doc = appendChild(made.doc, CurrentPage, id)],
                     [id |-> id, parentId |-> Some(CurrentPage)])
     ELSE [made EXCEPT !.c.node = Val(p.parentId), !.c.pc = "cr_lookup"]

\* createRectangle once figma.getNodeByIdAsync(parentId) has answered.
CrAfterLookup(st) ==
  LET c == st.c
      id == Val(c.created)
  IN IF ~Exists(st.doc, c.node)
     THEN PostError(st, "Parent node not found with ID: " \o ToString(c.node))
     ELSE IF ~SupportsChildren(st.doc[c.node])
     THEN PostError(st, "Parent node does not support children: " \o ToString(c.node))
     ELSE PostResult([st EXCEPT !.doc = appendChild(st.doc, c.node, id)],
                     [id |-> id, parentId |-> Some(c.node)])

\* cloneNode up to its first await.
ClStart(st) ==
  LET p == st.c.params
  IN IF ~p.has \/ p.nodeId = None THEN PostError(st, "Missing nodeId parameter")
     ELSE [st EXCEPT !.c.node = Val(p.nodeId), !.c.pc = "cl_lookup"]

\* cloneNode once figma.getNodeByIdAsync has answered: the clone is made,
\* moved to x, y if both are given, and appended to the parent of the
\* original. The nodes cloned in the model have no children.
ClAfterLookup(st) ==
  LET c == st.c
      p == c.params
  IN IF ~Exists(st.doc, c.node)
     THEN PostError(st, "Node not found with ID: " \o ToString(c.node))
     ELSE LET id == NewId(st.doc)
              made == WithCreated(st, id, st.doc[c.node])
              parent == Parent(st.doc, c.node)
          IN IF p.x # None /\ p.y # None /\ ~HasPosition(made.doc[id])
             THEN PostError(made, "Cloned node does not support position: "
                                  \o ToString(c.node))
             ELSE PostResult(IF parent = None THEN made
                             ELSE [made EXCEPT !.doc = appendChild(made.doc, Val(parent), id)],
                             [id |-> id])

----------------------------------------------------------------------------
(* createComponentInstance *)

\* The keys figma.importComponentByKeyAsync can import: the published
\* components the user has access to.
PublishedKeys == {"K:pub"}

\* figma.root.findAll(test): the nodes of the document that pass the test
\* (passing is the set of their ids), in document order (the pages other than
\* the current one are empty in the model).
FindAll(d, passing) == SelectSeq(PreOrder(d, CurrentPage), LAMBDA n : n \in passing)

\* The catch block of createComponentInstance: the error thrown in place of
\* message (no message of the model contains 'permission' or 'network').
CiCatch(st, message) ==
  LET key == Val(st.c.params.componentKey)
  IN PostError(st,
       IF Includes(message, "not found") \/ Includes(message, "Not found")
       THEN "Component key \"" \o key \o "\" not found. Ensure the component is published in a team library and you have access. Original error: "
            \o MessageText(message)
       ELSE "Failed to create component instance for key \"" \o key \o "\": "
            \o MessageText(message))

\* createComponentInstance up to its first await.
CiStart(st) ==
  LET p == st.c.params
  IN IF ~p.has \/ p.componentKey = None THEN PostError(st, "Missing componentKey parameter")
     ELSE [st EXCEPT !.c.pc = "ci_import"]

\* component.createInstance() and the return: mainKey is the key of the
\* component, componentId its id.
CiCreateInstance(st, componentId, mainKey) ==
  LET id == NewId(st.doc)
      made == WithCreated(st, id, ComponentNode("INSTANCE", <<>>, "", componentId,
                                                mainKey, FALSE))
  IN PostResult([made EXCEPT !.doc = appendChild(made.doc, CurrentPage, id)],
                [id |-> id, componentId |-> componentId, method |-> "direct_creation"])

\* createComponentInstance once figma.importComponentByKeyAsync has settled:
\* the imported component, else the first local component with the key, else
\* a clone of the first instance whose componentId equals the key or that has
\* component properties, else the error.
CiAfterImport(st, imported) ==
  LET key == Val(st.c.params.componentKey)
      IsLocal(node) == node.type = "COMPONENT" /\ node.key = key
      IsCandidate(node) ==
        node.type = "INSTANCE" /\ (node.componentId = key \/ node.componentProperties)
      localComponents == FindAll(st.doc, {n \in DOMAIN st.doc : IsLocal(st.doc[n])})
      existingInstances == FindAll(st.doc, {n \in DOMAIN st.doc : IsCandidate(st.doc[n])})
  IN IF imported THEN CiCreateInstance(st, "remote:" \o key, key)
     ELSE IF localComponents # <<>>
     THEN CiCreateInstance(st, ToString(localComponents[1]), st.doc[localComponents[1]].key)
     ELSE IF existingInstances # <<>>
     THEN LET id == NewId(st.doc)
              made == WithCreated(st, id, st.doc[existingInstances[1]])
          IN PostResult(made, [id |-> id, componentId |-> made.doc[id].componentId,
                               method |-> "clone_fallback"])
     ELSE CiCatch(st, <<"Component \"", key,
                        "\" not found. Tried: import, local search, and instance cloning. Ensure the component is published and accessible.">>)

----------------------------------------------------------------------------
(* getNodeInfo and handleCommand *)

\* getNodeInfo once figma.getNodeByIdAsync has answered.
GetNodeInfoAfterLookup(st) ==
  IF ~Exists(st.doc, st.c.node) THEN PostError(st, "Node not found")
  ELSE [st EXCEPT !.c.pc = "gni_export"]

\* getNodeInfo once node.exportAsync has answered.
GetNodeInfoAfterExport(st) == PostResult(st, [document |-> st.c.node])

\* The command names of the switch that the model follows.
Registered ==
  {"get_node_info", "scan_text_nodes", "set_multiple_text_contents", "set_effect_style_id",
   "flatten_node", "create_rectangle", "clone_node", "create_component_instance"}

\* Mutant of handleCommand: a switch without a default case; for a name it
\* does not know handleCommand returns undefined.
handleCommand_NoDefault(st) ==
  LET c == st.c
  IN CASE c.command = "get_node_info" ->
            IF ~c.params.has \/ c.params.nodeId = None
            THEN PostError(st, "Missing nodeId parameter")
            ELSE [st EXCEPT !.c.node = Val(c.params.nodeId), !.c.pc = "gni_lookup"]
       [] c.command = "scan_text_nodes" -> ScanStart(st)
       [] c.command = "set_multiple_text_contents" -> SmStart(st)
       [] c.command = "set_effect_style_id" -> EsStart(st)
       [] c.command = "flatten_node" -> FlStart(st)
       [] c.command = "create_rectangle" -> CrStart(st)
       [] c.command = "clone_node" -> ClStart(st)
       [] c.command = "create_component_instance" -> CiStart(st)
       [] OTHER -> PostResult(st, None)

\* handleCommand: the switch on the command name, run up to the handler's
\* first await; a throw is caught by figma.ui.onmessage and posted.
handleCommand(st) ==
  LET c == st.c
  IN CASE c.command = "get_node_info" ->
            IF ~c.params.has \/ c.params.nodeId = None
            THEN PostError(st, "Missing nodeId parameter")
            ELSE [st EXCEPT !.c.node = Val(c.params.nodeId), !.c.pc = "gni_lookup"]
       [] c.command = "scan_text_nodes" -> ScanStart(st)
       [] c.command = "set_multiple_text_contents" -> SmStart(st)
       [] c.command = "set_effect_style_id" -> EsStart(st)
       [] c.command = "flatten_node" -> FlStart(st)
       [] c.command = "create_rectangle" -> CrStart(st)
       [] c.command = "clone_node" -> ClStart(st)
       [] c.command = "create_component_instance" -> CiStart(st)
       [] OTHER -> PostError(st, "Unknown command: " \o c.command)

----------------------------------------------------------------------------
(* Actions: one turn of the plugin's event loop each *)

St(k) == [c |-> cmds[k], fills |-> fills, chars |-> chars, doc |-> doc]

\* The turn leaves the handler of slot k and the document as in st.
Turn(k, st) ==
  /\ cmds' = LET c == [st.c EXCEPT !.turns = @ + 1]
              IN IF k \in DOMAIN cmds THEN [cmds EXCEPT ![k] = c] ELSE Append(cmds, c)
  /\ fills' = st.fills
  /\ chars' = st.chars
  /\ respOrder' = IF st.c.pc = "done" /\ (k \notin DOMAIN cmds \/ cmds[k].pc # "done")
                  THEN Append(respOrder, k) ELSE respOrder
  /\ doc' = st.doc
  /\ UNCHANGED <<gateway, registry>>

\* Mutant of Receive: the plugin takes the message that arrived last.
Receive_NewestFirst ==
  /\ inbox # <<>>
  /\ LET k == Len(cmds) + 1
     IN Turn(k, handleCommand([c |-> NewCmd(k, inbox[Len(inbox)]), fills |-> fills,
                               chars |-> chars, doc |-> doc]))
  /\ inbox' = SubSeq(inbox, 1, Len(inbox) - 1)

\* figma.ui.onmessage receives the next execute-command message.
Receive ==
  /\ inbox # <<>>
  /\ LET k == Len(cmds) + 1
     IN Turn(k, handleCommand([c |-> NewCmd(k, Head(inbox)), fills |-> fills,
                               chars |-> chars, doc |-> doc]))
  /\ inbox' = Tail(inbox)

At(k, pc) == k \in DOMAIN cmds /\ cmds[k].pc = pc

GniLookup(k) ==
  /\ At(k, "gni_lookup")
  /\ Turn(k, GetNodeInfoAfterLookup(St(k)))
  /\ UNCHANGED inbox

GniExport(k) ==
  /\ At(k, "gni_export")
  /\ Turn(k, GetNodeInfoAfterExport(St(k)))
  /\ UNCHANGED inbox

ScanLookup(k) ==
  /\ At(k, "scan_lookup")
  /\ Turn(k, ScanAfterLookup(St(k)))
  /\ UNCHANGED inbox

ScanHighlightDone(k) ==
  /\ At(k, "scan_highlight")
  /\ Turn(k, ScanAfterHighlight(St(k)))
  /\ UNCHANGED inbox

ScanNodeDelayDone(k) ==
  /\ At(k, "scan_node_delay")
  /\ Turn(k, ScanAfterNodeDelay(St(k)))
  /\ UNCHANGED inbox

\* The chunk loop of a scan whose chunkSize is not positive never ends; the
\* model follows it for MaxIter chunks.
ScanChunkDelayDone(k) ==
  /\ At(k, "scan_chunk_delay")
  /\ cmds[k].chunksProcessed < MaxIter \/ cmds[k].chunkSize > 0
  /\ Turn(k, ScanAfterChunkDelay(St(k)))
  /\ UNCHANGED inbox

PlainHighlightDone(k) ==
  /\ At(k, "plain_highlight")
  /\ Turn(k, ScanPlainAfterHighlight(St(k)))
  /\ UNCHANGED inbox

ItemAt(k, n, pc) ==
  k \in DOMAIN cmds /\ n \in DOMAIN cmds[k].items /\ cmds[k].items[n].pc = pc

ItemLookupDone(k, n) ==
  /\ ItemAt(k, n, "lookup")
  /\ Turn(k, SmItemSettled(ItemAfterLookup(St(k), n)))
  /\ UNCHANGED inbox

ItemApplyDone(k, n) ==
  /\ ItemAt(k, n, "apply")
  /\ Turn(k, SmItemSettled(ItemApply(St(k), n)))
  /\ UNCHANGED inbox

ItemRestoreDone(k, n) ==
  /\ ItemAt(k, n, "restore")
  /\ Turn(k, SmItemSettled(ItemRestore(St(k), n)))
  /\ UNCHANGED inbox

SmChunkDelayDone(k) ==
  /\ At(k, "sm_chunk_delay")
  /\ Turn(k, SmAfterChunkDelay(St(k)))
  /\ UNCHANGED inbox

\* set_effect_style_id: figma.getNodeByIdAsync answers nodePromise.
EsLookupDone(k) ==
  /\ k \in DOMAIN cmds /\ cmds[k].seq = "lookup"
  /\ Turn(k, EsAfterLookup(St(k)))
  /\ UNCHANGED inbox

\* set_effect_style_id: figma.getLocalEffectStylesAsync answers nodePromise.
EsStylesDone(k) ==
  /\ k \in DOMAIN cmds /\ cmds[k].seq = "styles"
  /\ Turn(k, EsAfterStyles(St(k)))
  /\ UNCHANGED inbox

\* set_effect_style_id: 8 seconds have passed and the timer was not cleared.
EsTimerFires(k) ==
  /\ k \in DOMAIN cmds /\ cmds[k].timer = "armed"
  /\ Turn(k, EsTimeout(St(k)))
  /\ UNCHANGED inbox

\* flatten_node: figma.getNodeByIdAsync answers.
FlLookupDone(k) ==
  /\ At(k, "fl_lookup")
  /\ \E hasFlatten \in BOOLEAN : Turn(k, FlAfterLookup(St(k), hasFlatten))
  /\ UNCHANGED inbox

\* flatten_node: the 0-millisecond timer fires.
FlTimerZeroFires(k) ==
  /\ At(k, "fl_race") /\ cmds[k].seq = "scheduled"
  /\ \E took \in FlattenTimes, ok \in BOOLEAN : Turn(k, FlRun(St(k), took, ok))
  /\ UNCHANGED inbox

\* create_rectangle: figma.getNodeByIdAsync(parentId) answers.
CrLookupDone(k) ==
  /\ At(k, "cr_lookup")
  /\ Turn(k, CrAfterLookup(St(k)))
  /\ UNCHANGED inbox

\* clone_node: figma.getNodeByIdAsync answers.
ClLookupDone(k) ==
  /\ At(k, "cl_lookup")
  /\ Turn(k, ClAfterLookup(St(k)))
  /\ UNCHANGED inbox

\* create_component_instance: figma.importComponentByKeyAsync settles; it
\* resolves only for a published key, and may fail for one too.
CiImportDone(k) ==
  /\ At(k, "ci_import")
  /\ \E reached \in BOOLEAN :
       Turn(k, CiAfterImport(St(k), reached /\ Val(cmds[k].params.componentKey) \in PublishedKeys))
  /\ UNCHANGED inbox

----------------------------------------------------------------------------
(* The Gateway: invoke, the Correlation Table and the timeout (spec 3, 4.2) *)

Outcomes == {"result", "error"}

\* The timeout budgets of the command kinds, in ticks of the client's clock.
Timeouts == {1, 2}

\* No request has been made yet. sent: ids whose Command Envelope was sent;
\* pending: the Correlation Table; wire: Response Envelopes on their way to the
\* Gateway; answered: ids the host has answered; fired: ids whose timer has
\* fired; settled: id -> the settlements of the caller's future, in order;
\* discarded: ids of Response Envelopes dropped on arrival; now: the client's
\* clock; deadline: id -> startedAt + timeoutMs of the Pending Request;
\* inTime: ids whose Response Envelope arrived before the deadline.
\* retry: the call of robustOperation under way; tools: id -> the tool
\* handler that made the request.
GatewayIdle ==
  [sent |-> {}, pending |-> {}, wire |-> {}, answered |-> {}, fired |-> {},
   settled |-> <<>>, discarded |-> {}, now |-> 0, deadline |-> <<>>, inTime |-> {},
   retry |-> [pc |-> "idle"], tools |-> <<>>]

\* invoke: allocate a fresh id, register the Pending Request with its timer,
\* send the Command Envelope.
GwInvoke(g, timeoutMs) ==
  LET id == Len(g.settled) + 1
  IN [g EXCEPT !.sent = @ \cup {id},
               !.pending = @ \cup {id},
               !.settled = Append(@, <<>>),
               !.deadline = Append(@, g.now + timeoutMs)]

\* The host's dispatcher posts the one Response Envelope of request id.
GwHostAnswers(g, id, outcome) ==
  [g EXCEPT !.answered = @ \cup {id},
            !.wire = @ \cup {[id |-> id, outcome |-> outcome]}]

\* Mutant of GwOnResponse: the future is settled whether or not the id is
\* still in the Correlation Table.
GwOnResponse_NoLookup(g, r) ==
  [g EXCEPT !.wire = @ \ {r},
            !.pending = @ \ {r.id},
            !.settled[r.id] = Append(@, r.outcome),
            !.inTime = IF g.now < g.deadline[r.id] THEN @ \cup {r.id} ELSE @]

\* A Response Envelope arrives: a matching Pending Request is removed and
\* its future resolved or rejected; otherwise the envelope is dropped.
GwOnResponse(g, r) ==
  IF r.id \in g.pending
  THEN [g EXCEPT !.wire = @ \ {r},
                 !.pending = @ \ {r.id},
                 !.settled[r.id] = Append(@, r.outcome),
                 !.inTime = IF g.now < g.deadline[r.id] THEN @ \cup {r.id} ELSE @]
  ELSE [g EXCEPT !.wire = @ \ {r},
                 !.discarded = @ \cup {r.id},
                 !.inTime = IF g.now < g.deadline[r.id] THEN @ \cup {r.id} ELSE @]

\* The timer of request id fires: a Pending Request still in the table is
\* removed and its future rejected with a timeout; otherwise nothing happens.
GwOnTimeout(g, id) ==
  IF id \in g.pending
  THEN [g EXCEPT !.fired = @ \cup {id},
                 !.pending = @ \ {id},
                 !.settled[id] = Append(@, "timeout")]
  ELSE [g EXCEPT !.fired = @ \cup {id}]

\* The timer of request id is due: timeoutMs have passed since the send.
Due(g, id) == g.now >= g.deadline[id]

Invoke ==
  /\ Len(gateway.settled) < MaxRequests
  /\ \E t \in Timeouts : gateway' = GwInvoke(gateway, t)
  /\ UNCHANGED <<hostVars, registry>>

HostAnswers ==
  \E id \in gateway.sent \ gateway.answered, outcome \in Outcomes :
    /\ gateway' = GwHostAnswers(gateway, id, outcome)
    /\ UNCHANGED <<hostVars, registry>>

OnResponse ==
  \E r \in gateway.wire :
    /\ gateway' = GwOnResponse(gateway, r)
    /\ UNCHANGED <<hostVars, registry>>

\* Mutant of OnTimeout: the timer fires without regard to the time passed.
OnTimeout_Early ==
  \E id \in gateway.sent \ gateway.fired :
    /\ gateway' = GwOnTimeout(gateway, id)
    /\ UNCHANGED <<hostVars, registry>>

\* A timer fires no earlier than its delay after it was set.
OnTimeout ==
  \E id \in gateway.sent \ gateway.fired :
    /\ Due(gateway, id)
    /\ gateway' = GwOnTimeout(gateway, id)
    /\ UNCHANGED <<hostVars, registry>>

\* The client's clock advances.
Tick ==
  /\ gateway.now < MaxTime
  /\ gateway' = [gateway EXCEPT !.now = @ + 1]
  /\ UNCHANGED <<hostVars, registry>>

----------------------------------------------------------------------------
(* The Channel Registry: join, leave, broadcast (spec 3, 4.1) *)

Peers == 1..MaxPeers
Channels == {"A", "B"}

\* members: channel -> its peers (a channel with no peer does not exist);
\* last: the last broadcast (from = 0: none yet), with the peers it was
\* delivered to and the members every channel had at that moment;
\* lastJoin: the last join noted (peer = 0: none yet), with the members every
\* channel had before it and after it.
RegistryIdle ==
  [members |-> [ch \in Channels |-> {}],
   last |-> [from |-> 0, channel |-> "", to |-> {},
             membersThen |-> [ch \in Channels |-> {}]],
   lastJoin |-> [peer |-> 0, channel |-> "", before |-> [ch \in Channels |-> {}],
                 after |-> [ch \in Channels |-> {}]]]

ChannelOf(r, peer) == {ch \in Channels : peer \in r.members[ch]}

\* Mutant of RegJoin: joining a new channel leaves the previous one.
RegJoin_LeavesPrevious(r, peer, ch) ==
  [r EXCEPT !.members = [c \in Channels |-> IF c = ch THEN r.members[c] \cup {peer}
                                            ELSE r.members[c] \ {peer}]]

\* join(peer, channelId): fails (changes nothing) when the peer is a member
\* of a different channel.
RegJoin(r, peer, ch) ==
  IF ChannelOf(r, peer) \subseteq {ch}
  THEN [r EXCEPT !.members[ch] = @ \cup {peer}]
  ELSE r

\* leave(peer): removes the membership.
RegLeave(r, peer) ==
  [r EXCEPT !.members = [ch \in Channels |-> r.members[ch] \ {peer}]]

\* Mutant of RegBroadcast: the frame goes to every other connected peer.
RegBroadcast_AllPeers(r, peer) ==
  LET ch == CHOOSE c \in ChannelOf(r, peer) : TRUE
  IN [r EXCEPT !.last = [from |-> peer, channel |-> ch,
                         to |-> (UNION {r.members[c] : c \in Channels}) \ {peer},
                         membersThen |-> r.members]]

\* broadcast(senderPeer, frame): every other peer of the sender's channel
\* gets the frame.
RegBroadcast(r, peer) ==
  LET ch == CHOOSE c \in ChannelOf(r, peer) : TRUE
  IN [r EXCEPT !.last = [from |-> peer, channel |-> ch,
                         to |-> r.members[ch] \ {peer},
                         membersThen |-> r.members]]

Join ==
  \E peer \in Peers, ch \in Channels :
    /\ registry' = RegJoin(registry, peer, ch)
    /\ UNCHANGED <<hostVars, gateway>>

\* join, with the call and the peer sets around it kept for the properties.
JoinNoted ==
  \E peer \in Peers, ch \in Channels :
    /\ registry' = LET joined == RegJoin(registry, peer, ch)
                   IN [joined EXCEPT !.lastJoin =
                         [peer |-> peer, channel |-> ch, before |-> registry.members,
                          after |-> joined.members]]
    /\ UNCHANGED <<hostVars, gateway>>

Leave ==
  \E peer \in Peers :
    /\ registry' = RegLeave(registry, peer)
    /\ UNCHANGED <<hostVars, gateway>>

Broadcast ==
  \E peer \in Peers :
    /\ ChannelOf(registry, peer) # {}
    /\ registry' = RegBroadcast(registry, peer)
    /\ UNCHANGED <<hostVars, gateway>>

----------------------------------------------------------------------------
(* The dispatcher under overlapping commands *)

HostDoc == FlatDoc(<<"T", "W">>)

ScanParams(nodeId, useChunking, chunkSize) ==
  Params(Some(nodeId), useChunking, chunkSize, None, None)

TextParams(text) == Params(Some(Root), None, None, text, None)

\* The commands a client sends in the runs of Spec.
HostMenu ==
  { [command |-> "no_such_command", params |-> NoParams],
    [command |-> "get_node_info", params |-> NoParams],
    [command |-> "get_node_info", params |-> ScanParams(1, None, None)],
    [command |-> "get_node_info", params |-> ScanParams(MissingNode, None, None)],
    [command |-> "scan_text_nodes", params |-> ScanParams(Root, None, Some(2))],
    [command |-> "scan_text_nodes",
     params |-> Params(Some(Root), Some(FALSE), None, None, Some(Root + 1))],
    [command |-> "scan_text_nodes", params |-> ScanParams(MissingNode, None, None)],
    [command |-> "scan_text_nodes", params |-> Params(None, None, None, None, None)],
    [command |-> "set_multiple_text_contents", params |-> NoParams],
    [command |-> "set_multiple_text_contents", params |-> TextParams(None)],
    [command |-> "set_multiple_text_contents",
     params |-> TextParams(Some(<<Entry(Some(1), Some(1)), Entry(Some(2), Some(1))>>))],
    [command |-> "set_multiple_text_contents",
     params |-> TextParams(Some(<<Entry(Some(1), Some(1)), NullEntry>>))],
    [command |-> "set_multiple_text_contents",
     params |-> TextParams(Some([p \in 1..CHUNK_SIZE + 1 |-> Entry(None, Some(1))]))] }

\* Message p of a run carries the id p: ids are unique per in-flight request.
Inboxes ==
  UNION { { [p \in 1..n |-> Msg(p, f[p].command, f[p].params)] : f \in [1..n -> HostMenu] }
          : n \in 1..MaxCmds }

InitDoc(d) ==
  /\ doc = d
  /\ fills = [id \in DOMAIN d |-> "orig"]
  /\ chars = [id \in DOMAIN d |-> 0]
  /\ cmds = <<>>
  /\ respOrder = <<>>
  /\ gateway = GatewayIdle
  /\ registry = RegistryIdle

Init ==
  /\ InitDoc(HostDoc)
  /\ inbox \in Inboxes

Next ==
  \/ Receive
  \/ \E k \in 1..MaxCmds :
       \/ GniLookup(k)
       \/ GniExport(k)
       \/ ScanLookup(k)
       \/ ScanHighlightDone(k)
       \/ ScanNodeDelayDone(k)
       \/ ScanChunkDelayDone(k)
       \/ PlainHighlightDone(k)
       \/ SmChunkDelayDone(k)
       \/ \E n \in 1..CHUNK_SIZE :
            \/ ItemLookupDone(k, n)
            \/ ItemApplyDone(k, n)
            \/ ItemRestoreDone(k, n)

Spec == Init /\ [][Next]_vars

----------------------------------------------------------------------------
(* One chunked command at a time, over larger inputs *)

\* The chunkSize values a caller sends; None is the default.
ChunkSizes == {None, Some(0 - 1), Some(0), Some(1), Some(2), Some(3), Some(CHUNK_SIZE)}

\* n children, all of kind a except child p, of kind b.
Kinds(n, a, p, b) == [q \in 1..n |-> IF q = p THEN b ELSE a]

\* The documents scanned: all text, all frames, or text with one unreadable node.
ScanDocs ==
  UNION { {FlatDoc(Kinds(n, "T", 0, "T")), FlatDoc(Kinds(n, "F", 0, "F"))}
          \cup {FlatDoc(Kinds(n, "T", p, "X")) : p \in 1..n}
          : n \in 0..MaxScanKids }
  \cup {NestedDoc(v1, v4) : v1, v4 \in BOOLEAN}
  \cup {HiddenDoc}

ScanRuns ==
  { [doc |-> d,
     msg |-> Msg(1, "scan_text_nodes", ScanParams(Root, u, cs))]
    : d \in ScanDocs, u \in {None, Some(FALSE)}, cs \in ChunkSizes }
  \cup {[doc |-> HostDoc,
         msg |-> Msg(1, "scan_text_nodes", ScanParams(MissingNode, None, None))]}

\* The ways one entry fails: "id" no nodeId, "tx" no text, "nf" an unknown
\* node, "F" a frame, "W" a text node whose font does not load, "null" a
\* null entry.
FailKinds == {"id", "tx", "nf", "F", "W", "null"}

\* Entry p of a text array, of kind k; it addresses node p.
EntryOf(p, k) ==
  CASE k = "id" -> Entry(None, Some(1))
    [] k = "tx" -> Entry(Some(p), None)
    [] k = "nf" -> Entry(Some(MissingNode), Some(1))
    [] k = "null" -> NullEntry
    [] OTHER -> Entry(Some(p), Some(1))

\* The kinds of the entries of a text array: all fine, one failing entry
\* (the first or the last), or all failing.
TextKinds ==
  UNION { {Kinds(n, "T", 0, "T")}
          \cup {Kinds(n, "T", p, k) : p \in {1, n} \cap 1..n, k \in FailKinds}
          \cup {Kinds(n, k, 0, k) : k \in FailKinds}
          : n \in 0..MaxRepl }

TextRun(kinds) ==
  [doc |-> FlatDoc([p \in 1..Len(kinds) |-> IF kinds[p] \in {"F", "W"} THEN kinds[p] ELSE "T"]),
   msg |-> Msg(1, "set_multiple_text_contents",
               TextParams(Some([p \in 1..Len(kinds) |-> EntryOf(p, kinds[p])])))]

TextRuns ==
  {TextRun(kinds) : kinds \in TextKinds}
  \cup {[doc |-> HostDoc, msg |-> Msg(1, "set_multiple_text_contents", TextParams(None))]}

ChunkedRuns == ScanRuns \cup TextRuns

InitChunked ==
  \E r \in ChunkedRuns :
    /\ InitDoc(r.doc)
    /\ inbox = <<r.msg>>

NextChunked ==
  \/ Receive
  \/ \E k \in 1..MaxCmds :
       \/ ScanLookup(k)
       \/ ScanHighlightDone(k)
       \/ ScanNodeDelayDone(k)
       \/ ScanChunkDelayDone(k)
       \/ PlainHighlightDone(k)
       \/ SmChunkDelayDone(k)
       \/ \E n \in 1..CHUNK_SIZE :
            \/ ItemLookupDone(k, n)
            \/ ItemApplyDone(k, n)
            \/ ItemRestoreDone(k, n)

SpecChunked == InitChunked /\ [][NextChunked]_vars

----------------------------------------------------------------------------
(* set_effect_style_id commands, alone and overlapping *)

\* A text node (1) and a slice (2) under the root.
StyleDoc == FlatDoc(<<"T", "S">>)

StyleParams(nodeId, effectStyleId) ==
  [Params(nodeId, None, None, None, None) EXCEPT !.effectStyleId = effectStyleId]

\* The effectStyleId values a caller sends: the id of a local style, or the
\* name of a style in place of its id.
StyleIds == {"S:1", "Timeout shadow"}

StyleMenu ==
  { [command |-> "set_effect_style_id", params |-> StyleParams(Some(n), Some(s))]
    : n \in {1, 2, MissingNode}, s \in StyleIds }
  \cup { [command |-> "set_effect_style_id", params |-> StyleParams(None, Some("S:1"))],
         [command |-> "set_effect_style_id", params |-> StyleParams(Some(1), None)],
         [command |-> "get_node_info", params |-> ScanParams(1, None, None)] }

StyleInboxes ==
  UNION { { [p \in 1..n |-> Msg(p, f[p].command, f[p].params)] : f \in [1..n -> StyleMenu] }
          : n \in 1..MaxCmds }

InitStyle ==
  /\ InitDoc(StyleDoc)
  /\ inbox \in StyleInboxes

NextStyle ==
  \/ Receive
  \/ \E k \in 1..MaxCmds :
       \/ GniLookup(k)
       \/ GniExport(k)
       \/ EsLookupDone(k)
       \/ EsStylesDone(k)
       \/ EsTimerFires(k)

SpecStyle == InitStyle /\ [][NextStyle]_vars

----------------------------------------------------------------------------
(* The same tree scanned twice, with and without chunking *)

\* Root > (1: frame > (3: text, 4: frame > (5: text)), 2: text), with node 1
\* or node 4 invisible or not, and node 3 readable or not.
DeepDoc(vis1, vis4, rd3) ==
  (0 :> Node("FRAME", <<1, 2>>, TRUE, TRUE, TRUE)) @@
  (1 :> Node("FRAME", <<3, 4>>, vis1, TRUE, TRUE)) @@
  (2 :> Node("TEXT", <<>>, TRUE, TRUE, TRUE)) @@
  (3 :> Node("TEXT", <<>>, TRUE, rd3, TRUE)) @@
  (4 :> Node("FRAME", <<5>>, vis4, TRUE, TRUE)) @@
  (5 :> Node("TEXT", <<>>, TRUE, TRUE, TRUE))

PairDocs ==
  {DeepDoc(v1, v4, rd3) : v1, v4, rd3 \in BOOLEAN}
  \cup {NestedDoc(TRUE, FALSE), FlatDoc(<<"T", "I", "F", "T">>), HiddenDoc}

\* A chunked scan and an unchunked scan of the same node, in either order.
InitScanPair ==
  \E d \in PairDocs, n \in {Root, 1}, cs \in {None, Some(1), Some(2), Some(3)},
     chunkedFirst \in BOOLEAN :
    /\ n \in DOMAIN d
    /\ InitDoc(d)
    /\ LET chunked == ScanParams(n, None, cs)
           plain == ScanParams(n, Some(FALSE), cs)
       IN inbox = <<Msg(1, "scan_text_nodes", IF chunkedFirst THEN chunked ELSE plain),
                    Msg(2, "scan_text_nodes", IF chunkedFirst THEN plain ELSE chunked)>>

NextScanPair ==
  \/ Receive
  \/ \E k \in 1..MaxCmds :
       \/ ScanLookup(k)
       \/ ScanHighlightDone(k)
       \/ ScanNodeDelayDone(k)
       \/ ScanChunkDelayDone(k)
       \/ PlainHighlightDone(k)

SpecScanPair == InitScanPair /\ [][NextScanPair]_vars

----------------------------------------------------------------------------
(* flatten_node commands, alone and overlapping *)

\* A rectangle (1) and a text node (2) under the root.
FlattenDoc ==
  (Root :> Node("FRAME", <<1, 2>>, TRUE, TRUE, TRUE)) @@
  (1 :> Node("RECTANGLE", <<>>, TRUE, TRUE, TRUE)) @@
  (2 :> Node("TEXT", <<>>, TRUE, TRUE, TRUE))

FlattenMenu ==
  { [command |-> "flatten_node", params |-> ScanParams(n, None, None)]
    : n \in {1, 2, MissingNode} }
  \cup { [command |-> "flatten_node", params |-> NoParams] }

InitFlatten ==
  /\ InitDoc(FlattenDoc)
  /\ inbox \in UNION { { [p \in 1..n |-> Msg(p, f[p].command, f[p].params)]
                          : f \in [1..n -> FlattenMenu] } : n \in 1..MaxCmds }

NextFlatten ==
  \/ Receive
  \/ \E k \in 1..MaxCmds : FlLookupDone(k) \/ FlTimerZeroFires(k)

SpecFlatten == InitFlatten /\ [][NextFlatten]_vars

----------------------------------------------------------------------------
(* Commands that create nodes, alone and overlapping *)

\* The current page (0) with a frame (1), a text node (2), the local
\* component K:local (3) and an instance (4) with component properties of the
\* component K:other, whose id is 9:9; and a second, empty page (5).
CreateDoc ==
  (Root :> PlainNode("PAGE", <<1, 2, 3, 4>>)) @@
  (1 :> PlainNode("FRAME", <<>>)) @@
  (2 :> PlainNode("TEXT", <<>>)) @@
  (3 :> ComponentNode("COMPONENT", <<>>, "K:local", "", "", FALSE)) @@
  (4 :> ComponentNode("INSTANCE", <<>>, "", "9:9", "K:other", TRUE)) @@
  (5 :> PlainNode("PAGE", <<>>))

CreateParams(nodeId, parentId, position, componentKey) ==
  [Params(nodeId, None, None, None, None)
     EXCEPT !.parentId = parentId, !.x = position, !.y = position,
            !.componentKey = componentKey]

CreateMenu ==
  { [command |-> "create_rectangle", params |-> CreateParams(None, p, None, None)]
    : p \in {None, Some(1), Some(2), Some(MissingNode)} }
  \cup { [command |-> "clone_node", params |-> CreateParams(n, None, xy, None)]
         : n \in {None, Some(2), Some(5), Some(MissingNode)}, xy \in {None, Some(0)} }
  \cup { [command |-> "create_component_instance",
          params |-> CreateParams(None, None, None, key)]
         : key \in {None, Some("K:pub"), Some("K:local"), Some("K:unpublished")} }

InitCreate ==
  /\ InitDoc(CreateDoc)
  /\ inbox \in UNION { { [p \in 1..n |-> Msg(p, f[p].command, f[p].params)]
                          : f \in [1..n -> CreateMenu] } : n \in 1..MaxCmds }

NextCreate ==
  \/ Receive
  \/ \E k \in 1..MaxCmds : CrLookupDone(k) \/ ClLookupDone(k) \/ CiImportDone(k)

SpecCreate == InitCreate /\ [][NextCreate]_vars

----------------------------------------------------------------------------
(* The Gateway and the Channel Registry on their own *)

InitClient ==
  /\ InitDoc(HostDoc)
  /\ inbox = <<>>

NextGateway == Invoke \/ HostAnswers \/ OnResponse \/ OnTimeout \/ Tick

SpecGateway == InitClient /\ [][NextGateway]_vars

NextRegistry == Join \/ Leave \/ Broadcast

SpecRegistry == InitClient /\ [][NextRegistry]_vars

NextMembership == JoinNoted \/ Leave

SpecMembership == InitClient /\ [][NextMembership]_vars

----------------------------------------------------------------------------
(* The Gateway in front of the plugin: requests relayed to the dispatcher,
   Response Envelopes relayed back *)

\* The commands the client invokes.
RelayMenu ==
  { [command |-> "get_node_info", params |-> ScanParams(1, None, None)],
    [command |-> "scan_text_nodes", params |-> ScanParams(Root, None, Some(1))] }

\* invoke, with its Command Envelope delivered to the plugin's onmessage.
RelayInvoke ==
  /\ Len(gateway.settled) < MaxRelayed
  /\ \E m \in RelayMenu, t \in Timeouts :
       /\ gateway' = GwInvoke(gateway, t)
       /\ inbox' = Append(inbox, Msg(Len(gateway.settled) + 1, m.command, m.params))
  /\ UNCHANGED <<doc, fills, chars, cmds, respOrder, registry>>

\* Mutant of RelayResponse: the Response Envelope of a request whose timer
\* has fired is not relayed.
RelayResponse_UnlessTimedOut(k) ==
  /\ k \in DOMAIN cmds /\ cmds[k].pc = "done"
  /\ cmds[k].msgId \notin gateway.answered
  /\ cmds[k].msgId \notin gateway.fired
  /\ LET r == SelectSeq(cmds[k].out, IsResponse)[1]
     IN gateway' = GwHostAnswers(gateway, r.id,
                                 IF r.type = "command-result" THEN "result" ELSE "error")
  /\ UNCHANGED <<hostVars, registry>>

\* The Response Envelope the dispatcher posted for slot k travels to the
\* Gateway.
RelayResponse(k) ==
  /\ k \in DOMAIN cmds /\ cmds[k].pc = "done"
  /\ cmds[k].msgId \notin gateway.answered
  /\ LET r == SelectSeq(cmds[k].out, IsResponse)[1]
     IN gateway' = GwHostAnswers(gateway, r.id,
                                 IF r.type = "command-result" THEN "result" ELSE "error")
  /\ UNCHANGED <<hostVars, registry>>

\* The turns of the plugin's event loop.
HostNext ==
  \/ Receive
  \/ \E k \in 1..MaxRelayed :
       \/ GniLookup(k)
       \/ GniExport(k)
       \/ ScanLookup(k)
       \/ ScanHighlightDone(k)
       \/ ScanNodeDelayDone(k)
       \/ ScanChunkDelayDone(k)

Relayed == \E k \in 1..MaxRelayed : RelayResponse(k)

NextRelay == RelayInvoke \/ HostNext \/ Relayed \/ OnResponse \/ OnTimeout \/ Tick

\* The scan of slot k waits for a host call or a delay to come back: one of
\* its four scan actions is enabled (chunkSize is positive in RelayMenu).
ScanSuspended(k) ==
  /\ k \in DOMAIN cmds
  /\ cmds[k].pc \in {"scan_lookup", "scan_highlight", "scan_node_delay", "scan_chunk_delay"}

\* A turn of the event loop run by the handler of slot k.
TurnOf(k) == k \in DOMAIN cmds /\ cmds'[k].turns = cmds[k].turns + 1

GniNext == \E k \in 1..MaxRelayed : GniLookup(k) \/ GniExport(k)

\* The plugin's event loop runs every callback that is ready, the host API
\* answers every call, every delay ends, and the transport delivers every
\* envelope. For the scan the weak fairness of its turns is written out,
\* with ScanSuspended(k) for ENABLED.
SpecRelay ==
  /\ InitClient /\ [][NextRelay]_vars
  /\ WF_vars(Receive) /\ WF_vars(GniNext)
  /\ \A k \in 1..MaxRelayed : []<>(~ScanSuspended(k)) \/ []<><<TurnOf(k)>>_vars
  /\ WF_vars(Relayed) /\ WF_vars(OnResponse)

----------------------------------------------------------------------------
(* The chunk loop of scan_text_nodes under a fair event loop *)

\* A root frame with 0..MaxLoopKids text nodes, scanned in chunks of every
\* size a caller may send.
ScanLoopRuns ==
  { [doc |-> FlatDoc(Kinds(n, "T", 0, "T")),
     msg |-> Msg(1, "scan_text_nodes", ScanParams(Root, None, cs))]
    : n \in 0..MaxLoopKids, cs \in ChunkSizes }

InitScanLoop ==
  \E r \in ScanLoopRuns :
    /\ InitDoc(r.doc)
    /\ inbox = <<r.msg>>

NextScanLoop ==
  \/ Receive
  \/ \E k \in 1..MaxCmds :
       \/ ScanLookup(k)
       \/ ScanHighlightDone(k)
       \/ ScanNodeDelayDone(k)
       \/ ScanChunkDelayDone(k)

\* One of the scan actions of slot k is enabled: the scan waits for a host
\* call or a delay, and the model still follows its loop.
ScanReady(k) ==
  /\ ScanSuspended(k)
  /\ cmds[k].pc = "scan_chunk_delay" =>
       (cmds[k].chunksProcessed < MaxIter \/ cmds[k].chunkSize > 0)

\* The event loop runs every callback that is ready: the message is
\* received, every host call answers and every delay ends (the weak fairness
\* of the scan's turns, written out with ScanReady(k) for ENABLED).
SpecScanLoop ==
  /\ InitScanLoop /\ [][NextScanLoop]_vars
  /\ WF_vars(Receive)
  /\ \A k \in 1..MaxCmds : []<>(~ScanReady(k)) \/ []<><<TurnOf(k)>>_vars

----------------------------------------------------------------------------
(* robustOperation: retry with exponential backoff *)

\* Math.pow(2, attempt)
RECURSIVE Pow2(_)
Pow2(n) == IF n = 0 THEN 1 ELSE 2 * Pow2(n - 1)

\* Mutant of RoDelay: the same delay after every failure.
RoDelay_Constant(attempt) == 1000

\* const delay = Math.pow(2, attempt) * 1000
RoDelay(attempt) == Pow2(attempt) * 1000

\* robustOperation(operation, maxRetries) up to its first await. script[n] is
\* how the n-th invocation of operation ends ("ok" or "fail"); calls counts
\* the invocations, delays lists the waits taken, errors the errors thrown
\* to the caller. With maxRetries < 1 the loop body never runs and the
\* function returns undefined.
RoStart(maxRetries, script) ==
  [maxRetries |-> maxRetries, script |-> script, attempt |-> 1, calls |-> 0,
   delays |-> <<>>, errors |-> <<>>, value |-> None,
   pc |-> IF 1 <= maxRetries THEN "calling" ELSE "returned"]

\* Mutant of RoAfterOperation: the wait is taken after the last failure too.
RoAfterOperation_WaitsAfterLast(r) ==
  LET called == [r EXCEPT !.calls = @ + 1]
  IN IF r.script[r.attempt] = "ok"
     THEN [called EXCEPT !.pc = "returned", !.value = Some(r.attempt)]
     ELSE IF r.attempt = r.maxRetries
     THEN [called EXCEPT !.pc = "thrown", !.delays = Append(@, RoDelay(r.attempt)),
                         !.errors = Append(@, [attempts |-> r.maxRetries, last |-> r.attempt])]
     ELSE [called EXCEPT !.pc = "waiting", !.delays = Append(@, RoDelay(r.attempt))]

\* await operation() has settled: its value is returned; or its error is
\* caught, and either the aggregated error is thrown (last attempt) or the
\* delay is started.
RoAfterOperation(r) ==
  LET called == [r EXCEPT !.calls = @ + 1]
  IN IF r.script[r.attempt] = "ok"
     THEN [called EXCEPT !.pc = "returned", !.value = Some(r.attempt)]
     ELSE IF r.attempt = r.maxRetries
     THEN [called EXCEPT !.pc = "thrown",
                         !.errors = Append(@, [attempts |-> r.maxRetries, last |-> r.attempt])]
     ELSE [called EXCEPT !.pc = "waiting", !.delays = Append(@, RoDelay(r.attempt))]

\* The delay has passed: attempt++ and the loop condition.
RoAfterDelay(r) ==
  LET next == [r EXCEPT !.attempt = @ + 1]
  IN [next EXCEPT !.pc = IF next.attempt <= r.maxRetries THEN "calling" ELSE "returned"]

\* The ways the successive invocations of an operation end.
Scripts == [1..MaxAttempts -> {"ok", "fail"}]

RetryCall ==
  /\ gateway.retry.pc = "idle"
  /\ \E maxRetries \in 0..MaxAttempts, script \in Scripts :
       gateway' = [gateway EXCEPT !.retry = RoStart(maxRetries, script)]
  /\ UNCHANGED <<hostVars, registry>>

RetryOperationDone ==
  /\ gateway.retry.pc = "calling"
  /\ gateway' = [gateway EXCEPT !.retry = RoAfterOperation(@)]
  /\ UNCHANGED <<hostVars, registry>>

RetryDelayDone ==
  /\ gateway.retry.pc = "waiting"
  /\ gateway' = [gateway EXCEPT !.retry = RoAfterDelay(@)]
  /\ UNCHANGED <<hostVars, registry>>

NextRetry == RetryCall \/ RetryOperationDone \/ RetryDelayDone

SpecRetry == InitClient /\ [][NextRetry]_vars

----------------------------------------------------------------------------
(* The component tools: one Gateway call each, wrapped in try/catch *)

\* The tools followed, with the text of their error prefix and the budget
\* they pass to the Gateway.
Tools == {"create_component_instance", "set_component_variant"}

ToolOperation(tool) ==
  CASE tool = "create_component_instance" -> "creating component instance"
    [] tool = "set_component_variant" -> "setting component variant"

ToolTimeoutMs(tool) ==
  CASE tool = "create_component_instance" -> 20000
    [] tool = "set_component_variant" -> 10000

\* One tick of the client's clock, in milliseconds: the smaller budget.
TickMs == ToolTimeoutMs("set_component_variant")

\* What the Gateway's future of request id settles with: the host's result,
\* or the message of the error it rejects with.
HostResult(id) == [id |-> id, success |-> TRUE]
HostErrorMessage == "Component not found"
TimeoutMessage == "Request to Figma timed out"

\* JSON.stringify
Json(value) == <<"json", value>>

\* Mutant of ToolAfterCall: no catch block; the rejection leaves the handler.
ToolAfterCall_NoCatch(t, id, settlement) ==
  IF settlement = "result"
  THEN [t EXCEPT !.returned = Append(@, [type |-> "text", text |-> Json(HostResult(id))])]
  ELSE [t EXCEPT !.threw = TRUE]

\* The tool handler after await sendCommandToFigma(...): the JSON of the
\* result, or in the catch block 'Error <operation>: <message>'.
ToolAfterCall(t, id, settlement) ==
  IF settlement = "result"
  THEN [t EXCEPT !.returned = Append(@, [type |-> "text", text |-> Json(HostResult(id))])]
  ELSE [t EXCEPT !.returned = Append(@,
          [type |-> "text",
           text |-> <<"Error ", ToolOperation(t.tool), ": ",
                      IF settlement = "timeout" THEN TimeoutMessage
                      ELSE HostErrorMessage>>])]

\* A tool is invoked: its handler calls the Gateway with the tool's budget.
ToolInvoke ==
  /\ Len(gateway.settled) < MaxToolCalls
  /\ \E tool \in Tools :
       gateway' = [GwInvoke(gateway, ToolTimeoutMs(tool) \div TickMs) EXCEPT
                     !.tools = Append(@, [tool |-> tool, returned |-> <<>>,
                                          threw |-> FALSE, done |-> FALSE])]
  /\ UNCHANGED <<hostVars, registry>>

\* The Gateway's future has settled and the handler resumes.
ToolResumes ==
  \E id \in DOMAIN gateway.tools :
    /\ gateway.settled[id] # <<>> /\ ~gateway.tools[id].done
    /\ gateway' = [gateway EXCEPT
                     !.tools[id] = [ToolAfterCall(@, id, gateway.settled[id][1])
                                      EXCEPT !.done = TRUE]]
    /\ UNCHANGED <<hostVars, registry>>

NextTools == ToolInvoke \/ HostAnswers \/ OnResponse \/ OnTimeout \/ Tick \/ ToolResumes

SpecTools == InitClient /\ [][NextTools]_vars

----------------------------------------------------------------------------
(* Properties of the dispatcher (Spec) *)

Responses(k) == SelectSeq(cmds[k].out, IsResponse)
Settled(k) == cmds[k].pc = "done"
Posted(k, type) == \E n \in DOMAIN cmds[k].out : cmds[k].out[n].type = type
Occurrences(s, x) == Cardinality({n \in DOMAIN s : s[n] = x})

\* C1: a command whose handler has settled has exactly one Response Envelope
\* (one command-result or one command-error, never both, never two), a
\* command whose handler has not settled has none, and nothing is posted for
\* it afterwards.
C1_ExactlyOneResponse ==
  \A k \in DOMAIN cmds :
    /\ Settled(k) => Len(Responses(k)) = 1
    /\ ~Settled(k) => Len(Responses(k)) = 0
    /\ Occurrences(respOrder, k) = Len(Responses(k))
    /\ Responses(k) # <<>> => IsResponse(cmds[k].out[Len(cmds[k].out)])

\* Two commands have settled, one with a result and one with an error, the
\* latter a text replacement whose handler threw while an entry of its chunk
\* was still running and has since finished.
C1_Witness ==
  \E j, k \in DOMAIN cmds :
    /\ Settled(j) /\ Posted(j, "command-result")
    /\ Settled(k) /\ Posted(k, "command-error")
    /\ cmds[k].items # <<>>
    /\ cmds[k].items[1].pc = "done" /\ cmds[k].items[1].result.success

\* C2: every Response Envelope posted by the handler of a message carries the
\* id of that message, whatever other commands are in flight; message p of a
\* run was sent with id p.
C2_ResponseIdIsRequestId ==
  \A k \in DOMAIN cmds :
    \A n \in DOMAIN cmds[k].out :
      IsResponse(cmds[k].out[n]) => cmds[k].out[n].id = k /\ cmds[k].msgId = k

\* Two commands overlapped (the later one was answered first) and both have
\* their responses.
C2_Witness ==
  /\ Len(respOrder) >= 2
  /\ respOrder[1] > respOrder[2]
  /\ Posted(respOrder[1], "command-result")
  /\ Posted(respOrder[2], "command-result")

\* The kind of Response Envelope a message gets when handled on its own.
ExpectedType(c) ==
  LET p == c.params
  IN CASE c.command = "get_node_info" ->
            IF p.has /\ p.nodeId # None /\ Exists(doc, Val(p.nodeId))
            THEN "command-result" ELSE "command-error"
       [] c.command = "scan_text_nodes" ->
            IF p.has /\ p.nodeId # None /\ Exists(doc, Val(p.nodeId))
            THEN "command-result" ELSE "command-error"
       [] c.command = "set_multiple_text_contents" ->
            IF p.has /\ p.nodeId # None /\ p.text # None
               /\ \A n \in DOMAIN Val(p.text) : ~Val(p.text)[n].null
            THEN "command-result" ELSE "command-error"
       [] OTHER -> "command-error"

\* The handler of slot k is suspended at an await of the model (the guards of
\* the turns that resume it).
Suspended(k) ==
  \/ cmds[k].pc \in {"gni_lookup", "gni_export", "scan_lookup", "scan_highlight",
                     "scan_node_delay", "scan_chunk_delay", "plain_highlight",
                     "sm_chunk_delay"}
  \/ /\ cmds[k].pc = "sm_wait"
     /\ \E n \in DOMAIN cmds[k].items : cmds[k].items[n].pc \in {"lookup", "apply", "restore"}

\* C3: a handler that throws yields a command-error for its own command only;
\* every other command still gets the response its own message calls for, and
\* whatever has failed, every received command is either settled or suspended
\* at an await that resumes it (the dispatcher has not stopped).
C3_FailureIsolated ==
  \A k \in DOMAIN cmds :
    /\ Settled(k) => Posted(k, ExpectedType(cmds[k]))
    /\ Posted(k, "command-error") => ExpectedType(cmds[k]) = "command-error"
    /\ ~Settled(k) => Suspended(k)

\* A command failed while an earlier one was in flight and before a later one
\* arrived; both of the others then settled with results.
C3_Witness ==
  /\ Len(cmds) >= 2
  /\ \E j, k \in DOMAIN cmds :
       /\ j < k
       /\ Settled(j) /\ Posted(j, "command-result")
       /\ Settled(k) /\ Posted(k, "command-error")
       /\ \E a, b \in DOMAIN respOrder : a < b /\ respOrder[a] = k /\ respOrder[b] = j

----------------------------------------------------------------------------
(* Properties of the Gateway (SpecGateway) and the Channel Registry
   (SpecRegistry) *)

\* C4: the future of a request is settled at most once, by whichever of its
\* Response Envelope and its timer comes first; it is in the Correlation
\* Table exactly while unsettled; and a Response Envelope is dropped on
\* arrival exactly when its request had already timed out, leaving the
\* timeout as the only settlement.
C4_SettledOnce ==
  \A id \in DOMAIN gateway.settled :
    LET s == gateway.settled[id]
    IN /\ Len(s) <= 1
       /\ id \in gateway.pending <=> s = <<>>
       /\ s = <<"timeout">> => id \in gateway.fired
       /\ (s # <<>> /\ s # <<"timeout">>) =>
            id \in gateway.answered /\ s[1] \in Outcomes /\ id \notin gateway.discarded
       /\ id \in gateway.discarded => s = <<"timeout">>
       /\ (s = <<"timeout">> /\ id \in gateway.answered
           /\ ~\E r \in gateway.wire : r.id = id) => id \in gateway.discarded

\* One request timed out and its late Response Envelope has been dropped;
\* another was resolved and its timer fired afterwards.
C4_Witness ==
  \E a, b \in DOMAIN gateway.settled :
    /\ gateway.settled[a] = <<"timeout">> /\ a \in gateway.discarded
    /\ gateway.settled[b] = <<"result">> /\ b \in gateway.fired

\* C5: a broadcast frame is delivered exactly to the other members of the
\* sender's channel at that moment, hence to no peer that is then a member of
\* another channel.
C5_ChannelIsolation ==
  LET l == registry.last
  IN l.from # 0 =>
       /\ l.from \in l.membersThen[l.channel]
       /\ l.to = l.membersThen[l.channel] \ {l.from}
       /\ \A p \in l.to : \A ch \in Channels \ {l.channel} : p \notin l.membersThen[ch]

\* Channels A and B hold one pair each, a peer of the pair on A having been a
\* member of B before; a frame sent on A reached its partner only.
C5_Witness ==
  /\ registry.last.from = 1
  /\ registry.last.channel = "A"
  /\ registry.last.membersThen = [ch \in Channels |-> IF ch = "A" THEN {1, 2} ELSE {3, 4}]
  /\ registry.last.to = {2}
  /\ registry.members = [ch \in Channels |-> IF ch = "A" THEN {3, 4} ELSE {1, 2}]

----------------------------------------------------------------------------
(* Properties of the chunked commands (SpecChunked) *)

Events(k) == SelectSeq(cmds[k].out, IsProgress)
IsInProgress(m) == m.status = "in_progress"
InProgress(k) == SelectSeq(Events(k), IsInProgress)
Completed(k) == Settled(k) /\ Posted(k, "command-result")
Result(k) == Responses(k)[1].result

IsScan(c) == c.command = "scan_text_nodes"
IsText(c) == c.command = "set_multiple_text_contents"
IsChunked(c) == IsText(c) \/ (IsScan(c) /\ c.params.useChunking # Some(FALSE))

\* The items of a chunked command: the visible nodes under the scanned node,
\* or the entries of the text array.
Items(c) ==
  IF IsScan(c) THEN collectNodesToProcess(doc, Val(c.params.nodeId), <<>>, 0, <<>>)
  ELSE Val(c.params.text)

\* The chunk size the code uses, and the one the claims name (the caller's
\* value, 10 when not given).
CallerChunkSize(c) ==
  IF c.params.chunkSize # None THEN Val(c.params.chunkSize) ELSE DefaultChunkSize
UsedChunkSize(c) == IF IsText(c) THEN CHUNK_SIZE ELSE CallerChunkSize(c)

NumGroups(n, size) == IF n = 0 THEN 0 ELSE CeilDiv(n, size)

Flatten(gs) ==
  LET F[n \in 0..Len(gs)] == IF n = 0 THEN <<>> ELSE F[n - 1] \o gs[n]
  IN F[Len(gs)]

\* groups splits items, in order, into NumGroups consecutive groups of size
\* entries, the last one possibly smaller.
IsPartition(groups, items, size) ==
  /\ Flatten(groups) = items
  /\ Len(groups) = NumGroups(Len(items), size)
  /\ \A g \in DOMAIN groups :
       /\ Len(groups[g]) >= 1 /\ Len(groups[g]) <= size
       /\ g < Len(groups) => Len(groups[g]) = size

\* C6 (as claimed): the progress of the Progress Events of one command never
\* decreases, and a command that completes ends its events with completed
\* at 100.
C6_ProgressMonotone ==
  \A k \in DOMAIN cmds :
    LET e == Events(k)
    IN /\ \A a, b \in DOMAIN e : a < b => e[a].progress <= e[b].progress
       /\ (Completed(k) /\ (IsScan(cmds[k]) \/ IsText(cmds[k]))) =>
            e # <<>> /\ e[Len(e)].status = "completed" /\ e[Len(e)].progress = 100

\* C6, for chunk sizes of at least 1 only: there the claim holds.
C6_MonotoneForPositiveChunkSize ==
  \A k \in DOMAIN cmds :
    UsedChunkSize(cmds[k]) >= 1 =>
      LET e == Events(k)
      IN /\ \A a, b \in DOMAIN e : a < b => e[a].progress <= e[b].progress
         /\ Completed(k) =>
              e # <<>> /\ e[Len(e)].status = "completed" /\ e[Len(e)].progress = 100

\* C7 (as claimed): a completed chunked operation over N items with chunk
\* size C has emitted ceil(N/C) in_progress events, the last one with
\* processedItems = N.
C7_InProgressCountAsClaimed ==
  \A k \in DOMAIN cmds :
    (Completed(k) /\ IsChunked(cmds[k])) =>
      LET n == Len(Items(cmds[k]))
          ip == InProgress(k)
      IN /\ Len(ip) = NumGroups(n, UsedChunkSize(cmds[k]))
         /\ ip # <<>> => ip[Len(ip)].processedItems = n

\* C7 (amended): a completed chunked operation over N items with chunk size C
\* has emitted 1 + 2 * ceil(N/C) in_progress events (one after planning, one
\* before and one after each group), the last one with processedItems = N.
C7_InProgressCount ==
  \A k \in DOMAIN cmds :
    (Completed(k) /\ IsChunked(cmds[k])) =>
      LET n == Len(Items(cmds[k]))
          ip == InProgress(k)
      IN /\ Len(ip) = 1 + 2 * NumGroups(n, UsedChunkSize(cmds[k]))
         /\ ip[Len(ip)].processedItems = n

\* A scan of 25 nodes with the default chunk size has completed with its
\* seven in_progress events.
C7_Witness ==
  \E k \in DOMAIN cmds :
    /\ Completed(k) /\ IsScan(cmds[k]) /\ IsChunked(cmds[k])
    /\ Len(Items(cmds[k])) = 25 /\ cmds[k].params.chunkSize = None
    /\ Len(InProgress(k)) = 7

\* C8 (as claimed): a completed chunked operation has split its items, in
\* order, into ceil(N/chunkSize) consecutive groups of chunkSize items, the
\* last one possibly smaller, chunkSize being the caller's value or 10.
C8_PartitionAsClaimed ==
  \A k \in DOMAIN cmds :
    (Completed(k) /\ IsChunked(cmds[k])) =>
      IsPartition(cmds[k].groups, Items(cmds[k]), CallerChunkSize(cmds[k]))

\* C8 (amended): a completed chunked operation has split its items, in order,
\* into ceil(N/size) consecutive groups of size items, the last one possibly
\* smaller; size is the caller's chunkSize (10 when not given) for
\* scan_text_nodes and always 5 for set_multiple_text_contents; the final
\* processedItems is N.
C8_Partition ==
  \A k \in DOMAIN cmds :
    (Completed(k) /\ IsChunked(cmds[k])) =>
      LET e == Events(k)
      IN /\ IsPartition(cmds[k].groups, Items(cmds[k]), UsedChunkSize(cmds[k]))
         /\ e[Len(e)].processedItems = Len(Items(cmds[k]))

\* A scan of 25 nodes with chunk size 10 has completed with groups of 10, 10
\* and 5 nodes and a final processedItems of 25.
C8_Witness ==
  \E k \in DOMAIN cmds :
    /\ Completed(k) /\ IsScan(cmds[k]) /\ IsChunked(cmds[k])
    /\ CallerChunkSize(cmds[k]) = 10
    /\ [g \in DOMAIN cmds[k].groups |-> Len(cmds[k].groups[g])] = <<10, 10, 5>>
    /\ Events(k)[Len(Events(k))].processedItems = 25

\* The items of a command that fail: a text node that cannot be read, or an
\* entry without nodeId or text, for an unknown node, for a node that is not
\* a text node, or whose text cannot be set.
Failing(c, p) ==
  IF IsScan(c)
  THEN LET n == Items(c)[p].node IN doc[n].type = "TEXT" /\ ~doc[n].readable
  ELSE LET e == Items(c)[p]
       IN /\ ~e.null
          /\ \/ e.nodeId = None \/ e.text = None
             \/ ~Exists(doc, Val(e.nodeId))
             \/ doc[Val(e.nodeId)].type # "TEXT"
             \/ ~doc[Val(e.nodeId)].fontOk

NoNullEntry(c) == IsText(c) => \A p \in DOMAIN Items(c) : ~Items(c)[p].null

OneFailing(c) ==
  /\ NoNullEntry(c)
  /\ Cardinality({p \in DOMAIN Items(c) : Failing(c, p)}) = 1

\* The failure and success entries of the aggregate result: the results of
\* set_multiple_text_contents carry a success flag, the textNodes of
\* scan_text_nodes are the nodes that were read.
FailureEntries(k) ==
  IF IsText(cmds[k])
  THEN Cardinality({p \in DOMAIN Result(k).results : ~Result(k).results[p].success})
  ELSE 0
SuccessEntries(k) ==
  IF IsText(cmds[k])
  THEN Cardinality({p \in DOMAIN Result(k).results : Result(k).results[p].success})
  ELSE Len(Result(k).textNodes)

\* C9 (as claimed): a completed chunked operation over N items of which one
\* fails has a result with exactly one failure entry and N-1 success entries.
C9_OneFailureAsClaimed ==
  \A k \in DOMAIN cmds :
    (Completed(k) /\ IsChunked(cmds[k]) /\ OneFailing(cmds[k])) =>
      /\ FailureEntries(k) = 1
      /\ SuccessEntries(k) = Len(Items(cmds[k])) - 1

\* C9 (amended): in set_multiple_text_contents every entry is attempted
\* whatever happens to the others: the results hold, in order, a failure
\* entry for each failing entry and a success entry for every other one, whose
\* text has been set, so one failing entry gives one failure and N-1
\* successes; scan_text_nodes records no failure entry: a node that fails is
\* left out of textNodes, and the remaining nodes are still processed.
C9_OneFailure ==
  \A k \in DOMAIN cmds :
    LET c == cmds[k]
        items == Items(c)
    IN (Completed(k) /\ IsChunked(c)) =>
         IF IsText(c)
         THEN NoNullEntry(c) =>
                /\ Len(Result(k).results) = Len(items)
                /\ \A p \in DOMAIN items :
                     LET r == Result(k).results[p]
                     IN /\ r.success = ~Failing(c, p)
                        /\ r.success =>
                             /\ r.nodeId = items[p].nodeId
                             /\ r.translatedText = items[p].text
                             /\ chars[Val(items[p].nodeId)] = Val(items[p].text)
                /\ OneFailing(c) =>
                     FailureEntries(k) = 1 /\ SuccessEntries(k) = Len(items) - 1
         ELSE /\ FailureEntries(k) = 0
              /\ Result(k).processedNodes = Len(items)
              /\ [n \in DOMAIN Result(k).textNodes |-> Result(k).textNodes[n].id]
                   = SelectSeq([p \in DOMAIN items |-> items[p].node],
                               LAMBDA n : doc[n].type = "TEXT" /\ doc[n].readable)

\* A replacement of more than two groups of entries has completed; setting
\* the text of its first entry threw, and every other entry succeeded.
C9_Witness ==
  \E k \in DOMAIN cmds :
    /\ Completed(k) /\ IsText(cmds[k]) /\ OneFailing(cmds[k])
    /\ Len(Items(cmds[k])) = 2 * CHUNK_SIZE + 1
    /\ Result(k).results[1].error = "Error applying replacement"
    /\ FailureEntries(k) = 1 /\ SuccessEntries(k) = 2 * CHUNK_SIZE

ValidTextParams(c) ==
  IsText(c) /\ c.params.has /\ c.params.nodeId # None /\ c.params.text # None

\* C10 (as claimed): set_multiple_text_contents with a nodeId and a text array
\* never posts an error, and once settled it has posted a result with
\* replacementsApplied + replacementsFailed = totalReplacements = the number
\* of entries of results.
C10_AlwaysResult ==
  \A k \in DOMAIN cmds :
    ValidTextParams(cmds[k]) =>
      /\ ~Posted(k, "command-error")
      /\ Settled(k) =>
           /\ Posted(k, "command-result")
           /\ Result(k).replacementsApplied + Result(k).replacementsFailed
                = Result(k).totalReplacements
           /\ Result(k).totalReplacements = Len(Result(k).results)

\* C10, for text arrays whose entries are all objects: there the claim holds.
C10_ResultForObjectEntries ==
  \A k \in DOMAIN cmds :
    (ValidTextParams(cmds[k]) /\ NoNullEntry(cmds[k])) =>
      /\ ~Posted(k, "command-error")
      /\ Settled(k) =>
           /\ Posted(k, "command-result")
           /\ Result(k).replacementsApplied + Result(k).replacementsFailed
                = Result(k).totalReplacements
           /\ Result(k).totalReplacements = Len(Result(k).results)

----------------------------------------------------------------------------
(* Properties of the order of groups, yields and events *)

\* The per-item work of slot k that has started and not finished.
InFlight(k) ==
  IF IsText(cmds[k])
  THEN {n \in DOMAIN cmds[k].items : cmds[k].items[n].pc \in {"lookup", "apply", "restore"}}
  ELSE IF cmds[k].pc \in {"scan_highlight", "scan_node_delay"} THEN {cmds[k].j} ELSE {}

\* The items whose work is in flight all belong to the group taken last.
C11_SameGroup ==
  \A k \in DOMAIN cmds :
    (IsChunked(cmds[k]) /\ InFlight(k) # {}) =>
      LET last == cmds[k].groups[Len(cmds[k].groups)]
      IN IF IsText(cmds[k])
         THEN [n \in DOMAIN cmds[k].items |-> cmds[k].items[n].entry] = last
         ELSE cmds[k].chunkNodes = last

\* A step in which slot k takes a further group: no work of the groups before
\* is in flight, every item of the group before has finished, and the last
\* thing the command emitted is that group's Progress Event.
C11_GroupStep ==
  \A k \in DOMAIN cmds :
    (IsChunked(cmds[k]) /\ cmds[k].groups # <<>>
       /\ Len(cmds'[k].groups) > Len(cmds[k].groups)) =>
      LET e == Events(k)
      IN /\ InFlight(k) = {}
         /\ IF IsText(cmds[k])
            THEN \A n \in DOMAIN cmds[k].items : cmds[k].items[n].pc = "done"
            ELSE cmds[k].j > Len(cmds[k].chunkNodes)
         /\ cmds[k].out[Len(cmds[k].out)] = e[Len(e)]
         /\ e[Len(e)].status = "in_progress"
         /\ e[Len(e)].processedItems = Len(Flatten(cmds[k].groups))
         /\ Len(InProgress(k)) = 1 + 2 * Len(cmds[k].groups)

\* C11: the groups of a chunked operation run one after the other: a group is
\* taken only when every item of the group before has finished and that
\* group's Progress Event has been emitted, and the items at work at any
\* time are items of one group, the last one taken.
C11_GroupsSequential == []C11_SameGroup /\ [][C11_GroupStep]_vars

\* Two entries of the second group of a text replacement are at work at the
\* same time, one further on than the other.
C11_Witness ==
  \E k \in DOMAIN cmds :
    /\ IsText(cmds[k]) /\ Len(cmds[k].groups) = 2 /\ cmds[k].pc = "sm_wait"
    /\ Len(cmds[k].items) >= 2
    /\ cmds[k].items[1].pc = "restore" /\ cmds[k].items[2].pc = "lookup"

\* The handler of slot k is pausing between two chunks.
Yielding(k) == cmds[k].pc \in {"scan_chunk_delay", "sm_chunk_delay"}

\* C12: a chunked operation pauses once after each group except the last:
\* while group g is at work it has paused g-1 times, the g-th pause is
\* under way exactly while the handler waits between group g and group g+1,
\* and an operation that completes with G groups has paused G-1 times (not at
\* all when G is 0 or 1).
C12_YieldsBetweenGroups ==
  \A k \in DOMAIN cmds :
    IsChunked(cmds[k]) =>
      LET c == cmds[k]
          g == Len(c.groups)
      IN /\ c.yields = (IF Yielding(k) THEN g ELSE Max(g - 1, 0))
         /\ Yielding(k) => g >= 1
         /\ Completed(k) =>
              /\ g = NumGroups(Len(Items(c)), UsedChunkSize(c))
              /\ c.yields = Max(g - 1, 0)

\* A text replacement of three groups has completed after two pauses.
C12_Witness ==
  \E k \in DOMAIN cmds :
    /\ Completed(k) /\ IsText(cmds[k])
    /\ Len(cmds[k].groups) = 3 /\ cmds[k].yields = 2

\* C13: a scan or text replacement that completes has emitted its completed
\* Progress Event, with progress 100, right before its Response Envelope, and
\* no command emits a Progress Event once its Response Envelope is posted.
C13_CompletedBeforeResponse ==
  \A k \in DOMAIN cmds :
    LET o == cmds[k].out
    IN /\ \A r, n \in DOMAIN o : (IsResponse(o[r]) /\ IsProgress(o[n])) => n < r
       /\ (Completed(k) /\ (IsScan(cmds[k]) \/ IsText(cmds[k]))) =>
            /\ Len(o) >= 2
            /\ IsResponse(o[Len(o)])
            /\ IsProgress(o[Len(o) - 1])
            /\ o[Len(o) - 1].status = "completed"
            /\ o[Len(o) - 1].progress = 100
            /\ \A n \in 1..(Len(o) - 2) : o[n].status # "completed"

\* A chunked scan of two groups has completed: its last two messages are the
\* completed event and the result.
C13_Witness ==
  \E k \in DOMAIN cmds :
    /\ Completed(k) /\ IsScan(cmds[k]) /\ IsChunked(cmds[k])
    /\ Len(cmds[k].groups) = 2
    /\ cmds[k].out[Len(cmds[k].out)].type = "command-result"
    /\ cmds[k].out[Len(cmds[k].out) - 1].status = "completed"

\* The terminal Progress Events of slot k.
IsTerminal(m) == m.status \in {"completed", "error"}
Terminals(k) == SelectSeq(Events(k), IsTerminal)

\* C14: the Progress Events of one command hold at most one terminal event
\* (completed or error, never both), and it is the last of them.
C14_OneTerminalEvent ==
  \A k \in DOMAIN cmds :
    LET e == Events(k)
    IN /\ Len(Terminals(k)) <= 1
       /\ \A n \in DOMAIN e : IsTerminal(e[n]) => n = Len(e)
       /\ \A n \in DOMAIN e : e[n].status \in {"started", "in_progress", "completed", "error"}

\* Of two commands, one has ended its events with error (its node does not
\* exist) and the other with completed, after events that were not terminal.
C14_Witness ==
  \E j, k \in DOMAIN cmds :
    /\ Len(Events(j)) = 1 /\ Events(j)[1].status = "error" /\ Settled(j)
    /\ Len(Events(k)) >= 3 /\ Events(k)[Len(Events(k))].status = "completed"

\* Slot k holds a chunked command with well-formed parameters over an empty
\* item collection: an empty text array, or a node with no visible node
\* under it.
EmptyOperation(k) ==
  LET c == cmds[k]
  IN /\ IsChunked(c) /\ c.params.has /\ c.params.nodeId # None
     /\ IsText(c) => c.params.text # None
     /\ IsScan(c) => Exists(doc, Val(c.params.nodeId))
     /\ Items(c) = <<>>

Statuses(k) == [n \in DOMAIN Events(k) |-> Events(k)[n].status]

\* C15 (as claimed): a chunked operation over an empty collection emits
\* started and then at once completed with zero processed items, and settles
\* without error.
C15_EmptyAsClaimed ==
  \A k \in DOMAIN cmds :
    (EmptyOperation(k) /\ Settled(k)) =>
      /\ Completed(k)
      /\ Statuses(k) = <<"started", "completed">>
      /\ Events(k)[Len(Events(k))].processedItems = 0

\* C15 (amended): a chunked operation over an empty collection emits started
\* (0), the in_progress event that ends planning (5) and completed (100), all
\* with zero processed items, takes no group and no pause, and settles with a
\* result.
C15_Empty ==
  \A k \in DOMAIN cmds :
    EmptyOperation(k) =>
      /\ cmds[k].groups = <<>> /\ cmds[k].yields = 0
      /\ ~Posted(k, "command-error")
      /\ \A n \in DOMAIN Events(k) : Events(k)[n].processedItems = 0
      /\ Settled(k) =>
           /\ Completed(k)
           /\ Statuses(k) = <<"started", "in_progress", "completed">>
           /\ [n \in DOMAIN Events(k) |-> Events(k)[n].progress] = <<0, 5, 100>>
      /\ (IsText(cmds[k]) \/ cmds[k].pc # "scan_lookup") => Settled(k)

\* A text replacement with an empty text array has settled.
C15_Witness ==
  \E k \in DOMAIN cmds :
    /\ EmptyOperation(k) /\ IsText(cmds[k]) /\ Completed(k)
    /\ Result(k).totalReplacements = 0

----------------------------------------------------------------------------
(* Properties of correlation and scheduling (Spec) *)

\* C16 (as claimed): every Progress Event a command emits carries, as its
\* commandId, the id of the command's Command Envelope.
C16_ProgressIdIsEnvelopeId ==
  \A k \in DOMAIN cmds :
    \A n \in DOMAIN Events(k) : Events(k)[n].commandId = cmds[k].msgId

\* C16, what the handlers do in its place: the commandId of the events is
\* params.commandId when the caller gave one, and an id generated by the
\* handler otherwise; the id of the envelope plays no part.
C16_ProgressIdIsParamsCommandId ==
  \A k \in DOMAIN cmds :
    \A n \in DOMAIN Events(k) :
      Events(k)[n].commandId =
        (IF cmds[k].params.commandId # None THEN Val(cmds[k].params.commandId)
         ELSE generateCommandId(k))

\* C17 (as claimed): a command's handler starts only when every command that
\* arrived before it has settled.
C17_OneAtATimeAsClaimed ==
  \A j, k \in DOMAIN cmds : j < k => Settled(j)

\* A step of the host: either the handler of the message at the head of the
\* arrivals starts, in a new slot, and no other handler moves, or one handler
\* that was suspended runs and no message is taken.
C17_Step ==
  \/ /\ Len(cmds') = Len(cmds) + 1
     /\ inbox # <<>> /\ inbox' = Tail(inbox)
     /\ cmds'[Len(cmds')].msgId = Head(inbox).id
     /\ cmds'[Len(cmds')].command = Head(inbox).command
     /\ \A k \in DOMAIN cmds : cmds'[k] = cmds[k]
  \/ /\ Len(cmds') = Len(cmds)
     /\ inbox' = inbox
     /\ \A j, k \in DOMAIN cmds :
          (cmds'[j] # cmds[j] /\ cmds'[k] # cmds[k]) => j = k

\* C17 (amended): the host starts the handlers in arrival order and runs one
\* handler body at a time, between two awaits; it does not wait for a command
\* to settle before it starts the next one.
C17_ArrivalOrder == [][C17_Step]_vars

\* The handler of the second command has started, while the first command, a
\* scan, is suspended between two nodes and has not settled.
C17_Witness ==
  /\ Len(cmds) = 2
  /\ IsScan(cmds[1]) /\ cmds[1].pc = "scan_node_delay"
  /\ cmds[2].turns >= 1 /\ cmds[2].msgId # cmds[1].msgId

\* Slot k was answered before slot j, which arrived earlier.
AnsweredBefore(k, j) ==
  /\ j < k /\ Settled(k)
  /\ \/ ~Settled(j)
     \/ \E a, b \in DOMAIN respOrder : a < b /\ respOrder[a] = k /\ respOrder[b] = j

\* C18: Response Envelopes may be posted in another order than the commands
\* arrived; whenever a later command is answered before an earlier one, each
\* envelope carries the id of its own command, and the two ids differ.
C18_OutOfOrderCorrelated ==
  \A j, k \in DOMAIN cmds :
    AnsweredBefore(k, j) =>
      /\ Responses(k)[1].id = cmds[k].msgId
      /\ cmds[k].msgId # cmds[j].msgId
      /\ Settled(j) => Responses(j)[1].id = cmds[j].msgId

\* The first command, a text replacement, is pausing between two chunks and
\* has no response yet; the second command, sent after it, has its result.
C18_Witness ==
  /\ Len(cmds) = 2
  /\ IsText(cmds[1]) /\ cmds[1].pc = "sm_chunk_delay" /\ Responses(1) = <<>>
  /\ Settled(2) /\ Posted(2, "command-result")
  /\ respOrder = <<2>>

----------------------------------------------------------------------------
(* Properties of the dispatch of one command (Spec) *)

\* The handler of slot k settled in the turn that received its message,
\* before any await: it has made no host call.
SettledAtOnce(k) == Settled(k) /\ cmds[k].turns = 1

\* A command with an unknown name has its error envelope, and nothing else,
\* from the turn that received it.
C19_UnknownSettled ==
  \A k \in DOMAIN cmds :
    cmds[k].command \notin Registered =>
      /\ SettledAtOnce(k)
      /\ cmds[k].out = <<[type |-> "command-error", id |-> cmds[k].msgId,
                          error |-> "Unknown command: " \o cmds[k].command]>>
      /\ cmds[k].items = <<>> /\ cmds[k].groups = <<>>

\* The turn that receives a command with an unknown name changes nothing of
\* the document.
C19_UnknownStep ==
  (inbox # <<>> /\ Head(inbox).command \notin Registered /\ Len(cmds') = Len(cmds) + 1) =>
    /\ fills' = fills /\ chars' = chars /\ doc' = doc
    /\ \A k \in DOMAIN cmds : cmds'[k] = cmds[k]

\* C19: a command whose name is not registered settles at once with the
\* error 'Unknown command: <name>': no handler runs, there is no await, no
\* Progress Event, and the document and the other commands are untouched.
C19_UnknownCommand == []C19_UnknownSettled /\ [][C19_UnknownStep]_vars

\* An unknown command arrived while a scan was suspended with a node
\* highlighted, and has its error; the scan goes on.
C19_Witness ==
  \E j, k \in DOMAIN cmds :
    /\ cmds[k].command \notin Registered /\ Posted(k, "command-error")
    /\ j < k /\ cmds[j].pc \in {"scan_highlight", "plain_highlight"}
    /\ \E n \in DOMAIN fills : fills[n] = "hl"

\* A required parameter of the command is missing: nodeId for the three
\* commands, and the text array for set_multiple_text_contents.
MissingRequired(c) ==
  /\ c.command \in Registered
  /\ \/ ~c.params.has
     \/ c.params.nodeId = None
     \/ IsText(c) /\ c.params.text = None

\* C20 (as claimed): a command with a required parameter missing settles at
\* once with an error envelope; its handler makes no host call (no node
\* lookup) and changes nothing.
C20_ValidationBypassesExecution ==
  \A k \in DOMAIN cmds :
    MissingRequired(cmds[k]) =>
      /\ SettledAtOnce(k)
      /\ Posted(k, "command-error")
      /\ cmds[k].items = <<>> /\ cmds[k].groups = <<>>

\* C20, for get_node_info and set_multiple_text_contents only: there the claim
\* holds.
C20_ValidatedCommands ==
  \A k \in DOMAIN cmds :
    (MissingRequired(cmds[k]) /\ ~IsScan(cmds[k])) =>
      /\ SettledAtOnce(k)
      /\ Posted(k, "command-error")
      /\ cmds[k].items = <<>> /\ cmds[k].groups = <<>>

----------------------------------------------------------------------------
(* The Gateway's timeout against its clock (SpecGateway) *)

\* C21: a future is rejected with a timeout only at or after timeoutMs since
\* the request was sent, never before (the clock never runs backwards, so a
\* timeout settlement is seen only at times from the deadline on); a request
\* whose Response Envelope arrives before timeoutMs have passed is settled by
\* that envelope and never with a timeout.
C21_TimeoutNotBeforeBudget ==
  \A id \in DOMAIN gateway.settled :
    LET s == gateway.settled[id]
    IN /\ s = <<"timeout">> => gateway.now >= gateway.deadline[id]
       /\ id \in gateway.inTime => s # <<>> /\ s[1] \in Outcomes

\* A request with a budget of 2 sent at time 0 has been rejected with a
\* timeout at time 2; another was answered within its budget and its timer
\* came due afterwards.
C21_Witness ==
  \E a, b \in DOMAIN gateway.settled :
    /\ gateway.settled[a] = <<"timeout">> /\ gateway.deadline[a] = MaxTime
    /\ gateway.now = MaxTime
    /\ gateway.settled[b] = <<"result">> /\ b \in gateway.inTime /\ b \in gateway.fired

----------------------------------------------------------------------------
(* A client-side timeout and the host's work (SpecRelay) *)

\* The future of request id was rejected with a timeout.
TimedOut(id) == id \in DOMAIN gateway.settled /\ gateway.settled[id] = <<"timeout">>

\* The handler of request id has run to its end: its Response Envelope is
\* posted, after the completed Progress Event when it is a scan.
HostFinished(id) ==
  \E k \in DOMAIN cmds :
    /\ cmds[k].msgId = id /\ cmds[k].pc = "done"
    /\ Len(SelectSeq(cmds[k].out, IsResponse)) = 1
    /\ cmds[k].command = "scan_text_nodes" =>
         \E n \in DOMAIN cmds[k].out :
           IsProgress(cmds[k].out[n]) /\ cmds[k].out[n].status = "completed"

\* C22: once the client has timed out on a request, the host handler still
\* runs to completion and the dispatcher posts the command's Response
\* Envelope, which the Gateway drops: the future keeps its timeout.
C22_TimeoutDoesNotCancel ==
  \A id \in 1..MaxRelayed :
    TimedOut(id) ~> (TimedOut(id) /\ HostFinished(id) /\ id \in gateway.discarded)

\* The client timed out on a scan that the plugin had not received yet; the
\* scan ran all the same and its envelope was dropped.
C22_Witness ==
  \E k \in DOMAIN cmds :
    /\ cmds[k].command = "scan_text_nodes"
    /\ TimedOut(cmds[k].msgId) /\ HostFinished(cmds[k].msgId)
    /\ cmds[k].msgId \in gateway.discarded
    /\ cmds[k].chunksProcessed > 1

----------------------------------------------------------------------------
(* The retry wrapper (SpecRetry) *)

Retry == gateway.retry
RetryStarted == Retry.pc # "idle"
RetryFinished == Retry.pc \in {"returned", "thrown"}

\* C23: the wrapper invokes the operation at most maxRetries times and stops
\* at the first success, returning that invocation's value; it waits only
\* between two consecutive attempts (one delay per failure that is followed
\* by another attempt), each delay twice the one before; and after
\* maxRetries failures it throws one aggregated error without a further
\* delay. An operation that fails twice and then succeeds, with maxRetries =
\* 3, returns its value after exactly 2 delays.
C23_RetryBackoff ==
  RetryStarted =>
    LET r == Retry
        failed(n) == r.script[n] = "fail"
    IN /\ r.calls <= r.maxRetries
       /\ \A n \in 1..r.calls - 1 : failed(n)
       /\ Len(r.delays) = IF ~RetryFinished THEN r.calls
                          ELSE IF r.calls = 0 THEN 0 ELSE r.calls - 1
       /\ ~RetryFinished => \A n \in 1..r.calls : failed(n)
       /\ \A n \in 2..Len(r.delays) : r.delays[n] = 2 * r.delays[n - 1]
       /\ Len(r.errors) = IF r.pc = "thrown" THEN 1 ELSE 0
       /\ r.pc = "thrown" =>
            /\ r.calls = r.maxRetries /\ failed(r.calls)
            /\ r.errors = <<[attempts |-> r.maxRetries, last |-> r.maxRetries]>>
       /\ (r.pc = "returned" /\ r.maxRetries >= 1) =>
            ~failed(r.calls) /\ r.value = Some(r.calls)
       /\ (RetryFinished /\ r.maxRetries = 3
           /\ SubSeq(r.script, 1, 3) = <<"fail", "fail", "ok">>) =>
            r.pc = "returned" /\ r.value = Some(3) /\ Len(r.delays) = 2

\* The operation failed twice and then succeeded, with maxRetries = 3: its
\* value was returned after delays of 2000 and 4000 ms.
C23_Witness ==
  /\ RetryStarted /\ Retry.pc = "returned" /\ Retry.maxRetries = 3
  /\ SubSeq(Retry.script, 1, 3) = <<"fail", "fail", "ok">>
  /\ Retry.calls = 3 /\ Retry.delays = <<2000, 4000>>

----------------------------------------------------------------------------
(* Timeout errors posted by the host (SpecStyle) *)

IsStyle(c) == c.command = "set_effect_style_id"

\* The handler of slot k went as far as the race.
Raced(k) == IsStyle(cmds[k]) /\ cmds[k].timer # "unset"

TimedOutResponse(m) == m.type = "command-error" /\ m.error = TimedOutError

----------------------------------------------------------------------------
(* Exclusive channel membership (SpecMembership) *)

----------------------------------------------------------------------------
(* The result of a tool invocation (SpecTools) *)

\* C26: a tool invocation returns one text result and never throws: nothing
\* before the Gateway's future has settled; once the handler has resumed, the
\* JSON of the host's result if the future resolved, and 'Error <operation>:
\* <message>' with the message of the rejection (the host's error or the
\* client's timeout) if it rejected.
C26_OneTextResult ==
  \A id \in DOMAIN gateway.tools :
    LET t == gateway.tools[id]
        s == gateway.settled[id]
    IN /\ ~t.threw
       /\ Len(t.returned) = IF t.done THEN 1 ELSE 0
       /\ t.done =>
            /\ s # <<>>
            /\ t.returned[1].type = "text"
            /\ s[1] = "result" => t.returned[1].text = Json(HostResult(id))
            /\ s[1] = "error" =>
                 t.returned[1].text = <<"Error ", ToolOperation(t.tool), ": ", HostErrorMessage>>
            /\ s[1] = "timeout" =>
                 t.returned[1].text = <<"Error ", ToolOperation(t.tool), ": ", TimeoutMessage>>

\* One tool returned its error text after the client's timeout, another
\* after the host's error.
C26_Witness ==
  \E a, b \in DOMAIN gateway.tools :
    /\ gateway.tools[a].done /\ gateway.settled[a] = <<"timeout">>
    /\ gateway.tools[b].done /\ gateway.settled[b] = <<"error">>

----------------------------------------------------------------------------
(* Termination of the chunk loop (SpecScanLoop) *)

\* The scan of slot k has emitted its terminal Progress Event and returned.
ScanReturned(k) ==
  k \in DOMAIN cmds /\ Settled(k) /\ Terminals(k) # <<>>

C27_TerminatesForPositiveChunkSize ==
  (inbox # <<>> /\ CallerChunkSize(Head(inbox)) > 0) => <>ScanReturned(1)

\* With a chunkSize that is not positive the loop index never comes nearer
\* to totalNodes: every pass of the loop starts at an index that is at most
\* the one before.
C27_IndexStuck ==
  \A k \in DOMAIN cmds :
    (IsScan(cmds[k]) /\ cmds[k].chunkSize <= 0) => cmds[k].i <= 0

----------------------------------------------------------------------------
(* C28: the highlight of a text node is temporary *)

\* Command k has settled and none of its entries is still being worked on.
Finished(k) ==
  /\ Settled(k)
  /\ \A n \in DOMAIN cmds[k].items :
       cmds[k].items[n].pc \notin {"lookup", "apply", "restore"}

\* Nothing is waiting and every received command has finished.
Quiescent ==
  /\ inbox = <<>>
  /\ cmds # <<>>
  /\ \A k \in DOMAIN cmds : Finished(k)

\* C28: the orange highlight that scan_text_nodes and
\* set_multiple_text_contents put on a text node is temporary: once every
\* received command has settled and none of its entries is in flight, every
\* node has the fills it had before the commands started, whether an entry
\* succeeded or failed and whether or not commands overlapped.
C28_HighlightTemporary ==
  Quiescent => \A id \in DOMAIN fills : fills[id] = "orig"

----------------------------------------------------------------------------
(* The race of set_effect_style_id (SpecStyle) *)

\* C29: set_effect_style_id races nodePromise against its 8-second timer.
\* While the race is open the timer is armed and nothing is posted. If the
\* timer fires first the command settles with the timed-out error; if
\* nodePromise finishes first the timer is cleared and the command settles
\* with the value of nodePromise (or, when it rejected, with an error). The
\* command has one Response Envelope however the loser of the race ends.
C29_RaceSettlesOnce ==
  \A k \in DOMAIN cmds :
    Raced(k) =>
      LET c == cmds[k]
      IN /\ Settled(k) <=> c.timer \in {"fired", "cleared"}
         /\ ~Settled(k) => c.timer = "armed" /\ Responses(k) = <<>>
         /\ Settled(k) => Len(Responses(k)) = 1
         /\ c.timer = "fired" => TimedOutResponse(Responses(k)[1])
         /\ c.timer = "cleared" =>
              /\ c.seq \in {"resolved", "rejected"}
              /\ c.seq = "resolved" =>
                   Responses(k)[1] = [type |-> "command-result", id |-> c.msgId,
                                      result |-> [id |-> c.node, effectStyleId |-> c.styleId]]
              /\ c.seq = "rejected" => Responses(k)[1].type = "command-error"

\* Both ways the race ends have happened, and the sequence that lost to the
\* timer has finished afterwards.
C29_Witness ==
  \E k, j \in DOMAIN cmds :
    /\ Raced(k) /\ cmds[k].timer = "fired" /\ cmds[k].seq \in {"resolved", "rejected"}
    /\ Raced(j) /\ cmds[j].timer = "cleared" /\ cmds[j].seq = "resolved"

\* C30 (as claimed): a set_effect_style_id command that settled with its
\* timeout error has not assigned the node's effectStyleId, and does not
\* assign it later.
C30_TimeoutLeavesStyle ==
  \A k \in DOMAIN cmds :
    (Raced(k) /\ Settled(k) /\ TimedOutResponse(Responses(k)[1])) =>
      /\ ~cmds[k].applied
      /\ (Exists(doc, cmds[k].node) /\ \A j \in DOMAIN cmds : j # k => ~cmds[j].applied)
            => doc[cmds[k].node].effectStyleId = NoStyle

----------------------------------------------------------------------------
(* C31: the 8-second limit of flatten_node *)

IsFlatten(c) == c.command = "flatten_node"

\* C31: a flatten_node command whose flatten operation was started settles
\* with the 'timed out' error when the operation has not completed within 8
\* seconds of being scheduled, and with the flattened node when it completed
\* in time.
C31_FlattenTimesOut ==
  \A k \in DOMAIN cmds :
    (IsFlatten(cmds[k]) /\ Settled(k) /\ cmds[k].seq = "ran") =>
      LET r == Responses(k)[1]
      IN IF cmds[k].elapsed >= FlattenTimeoutS
         THEN r.type = "command-error" /\ r.error = FlattenTimedOutError
         ELSE \/ r.type = "command-error"
              \/ /\ r.result = [id |-> cmds[k].node, type |-> "VECTOR"]
                 /\ doc[cmds[k].node].type = "VECTOR"

\* The handler's 8-second timer never decides the outcome: a flatten_node
\* command whose operation was started and returned a node settles with that
\* node however long the operation took.
C31_FlattenOutlastsTimer ==
  \A k \in DOMAIN cmds :
    (IsFlatten(cmds[k]) /\ Settled(k) /\ cmds[k].seq = "ran") =>
      /\ cmds[k].timer = "cleared"
      /\ Len(Responses(k)) = 1
      /\ (Responses(k)[1].type = "command-error"
            => Responses(k)[1].error = "Error flattening node: flatten failed")
      /\ (Responses(k)[1].type = "command-result"
            => Responses(k)[1].result = [id |-> cmds[k].node, type |-> "VECTOR"])

----------------------------------------------------------------------------
(* C32: what the Progress Events around a group report *)

\* The number of items in the first j of the groups gs.
ItemsIn(gs, j) == Len(Flatten(SubSeq(gs, 1, j)))

\* p = Math.round(5 + (j / g) * 90) for g > 0: p <= 5 + 90 j / g + 1/2 < p + 1.
IsRoundedShare(p, j, g) ==
  /\ 2 * p * g <= 11 * g + 180 * j
  /\ 11 * g + 180 * j < (2 * p + 2) * g

\* C32: in a chunked operation with G groups (of at least one item each), the
\* in_progress events after the planning event come in pairs, one before and
\* one after each group: the event emitted just before the j-th group starts
\* reports as processedItems the number of items of groups 1..j-1, and the
\* event emitted after the j-th group has finished reports the number of
\* items of groups 1..j and progress round(5 + (j / G) * 90).
C32_GroupProgress ==
  \A k \in DOMAIN cmds :
    LET c == cmds[k]
        E == InProgress(k)
    IN \A j \in 1..Len(c.groups) :
         /\ Len(E) >= 2 * j
         /\ E[2 * j].processedItems = ItemsIn(c.groups, j - 1)
         /\ E[2 * j].totalItems = Len(Items(c))
         /\ Len(E) >= 2 * j + 1 =>
              /\ E[2 * j + 1].processedItems = ItemsIn(c.groups, j)
              /\ E[2 * j + 1].totalItems = Len(Items(c))
              /\ UsedChunkSize(c) >= 1 =>
                   IsRoundedShare(E[2 * j + 1].progress, j,
                                  NumGroups(Len(Items(c)), UsedChunkSize(c)))
         /\ (Completed(k) \/ j < Len(c.groups)) => Len(E) >= 2 * j + 1

\* A scan of seven nodes in chunks of two has completed: four groups, the
\* last of one node; the event after the first group reports 2 of 7 items at
\* 28 percent (27.5 rounded up), the one before the last group 6 items.
C32_Witness ==
  \E k \in DOMAIN cmds :
    /\ IsScan(cmds[k]) /\ Completed(k)
    /\ Len(cmds[k].groups) = 4 /\ Len(cmds[k].groups[4]) = 1
    /\ InProgress(k)[3].processedItems = 2 /\ InProgress(k)[3].progress = 28
    /\ InProgress(k)[8].processedItems = 6
    /\ InProgress(k)[9].processedItems = 7 /\ InProgress(k)[9].progress = 95

----------------------------------------------------------------------------
(* C33: the ranges of a Progress Event's fields *)

ProgressStatuses == {"started", "in_progress", "completed", "error"}

WellFormedEvent(e) ==
  /\ e.status \in ProgressStatuses
  /\ 0 <= e.progress /\ e.progress <= 100
  /\ e.totalItems >= 0
  /\ 0 <= e.processedItems /\ e.processedItems <= e.totalItems

\* C33: every Progress Event emitted by the host has a status in {started,
\* in_progress, completed, error}, a progress between 0 and 100 inclusive,
\* totalItems >= 0, and 0 <= processedItems <= totalItems.
C33_EventRanges ==
  \A k \in DOMAIN cmds : \A n \in DOMAIN Events(k) : WellFormedEvent(Events(k)[n])

\* The same for the commands whose chunk size is at least 1 (every
\* set_multiple_text_contents, and a scan whose chunkSize is absent or
\* positive).
C33_EventRangesPositiveChunkSize ==
  \A k \in DOMAIN cmds :
    (IsChunked(cmds[k]) => UsedChunkSize(cmds[k]) >= 1) =>
      \A n \in DOMAIN Events(k) : WellFormedEvent(Events(k)[n])

----------------------------------------------------------------------------
(* C34: the chunked and the unchunked scan return the same records *)

IsPlainScan(c) == IsScan(c) /\ c.params.useChunking = Some(FALSE)
IsChunkedScan(c) == IsScan(c) /\ c.params.useChunking # Some(FALSE)

\* C34: for the same node tree, a scan_text_nodes with chunking (the default
\* or any chunkSize >= 1) that has completed and one without chunking that
\* has completed, of the same node, return the same sequence of text-node
\* records: same ids, same path and depth, same order.
C34_ChunkedEqualsPlain ==
  \A k, j \in DOMAIN cmds :
    ( /\ IsChunkedScan(cmds[k]) /\ CallerChunkSize(cmds[k]) >= 1 /\ Completed(k)
      /\ IsPlainScan(cmds[j]) /\ Completed(j)
      /\ cmds[k].params.nodeId = cmds[j].params.nodeId )
    => Result(k).textNodes = Result(j).textNodes

\* Both scans of the root of a tree with a hidden frame have completed, the
\* chunked one in more than one chunk, and each returned two records, the
\* second from depth 2.
C34_Witness ==
  \E k, j \in DOMAIN cmds :
    /\ IsChunkedScan(cmds[k]) /\ Completed(k) /\ Len(cmds[k].groups) > 1
    /\ IsPlainScan(cmds[j]) /\ Completed(j)
    /\ cmds[k].params.nodeId = Some(Root) /\ cmds[j].params.nodeId = Some(Root)
    /\ ~doc[4].visible
    /\ Len(Result(j).textNodes) = 2
    /\ Result(k).textNodes[1] = [id |-> 3, path |-> <<Root, 1, 3>>, depth |-> 2]
    /\ Result(k).textNodes[2].id = 2

----------------------------------------------------------------------------
(* C35: invisible nodes are skipped with their subtrees *)

Subtree(d, n) == {PreOrder(d, n)[i] : i \in DOMAIN PreOrder(d, n)}

\* n and its ancestors up to the scanned node top.
UpTo(d, top, n) == {m \in Subtree(d, top) : n \in Subtree(d, m)}

\* The ids a scan of top has to report: the text nodes of its subtree that
\* are visible, have no invisible ancestor up to top and can be read, each
\* once, in pre-order.
VisibleTexts(d, top) ==
  LET Wanted(n) == /\ d[n].type = "TEXT" /\ d[n].readable
                   /\ \A m \in UpTo(d, top, n) : d[m].visible
  IN SelectSeq(PreOrder(d, top), Wanted)

ReportedIds(k) == [i \in DOMAIN Result(k).textNodes |-> Result(k).textNodes[i].id]

----------------------------------------------------------------------------
(* C36: a command that fails leaves the document as it was *)

Failed(k) == Settled(k) /\ Posted(k, "command-error")

\* Every command received so far has settled with an error envelope.
AllFailed ==
  /\ inbox = <<>>
  /\ cmds # <<>>
  /\ \A k \in DOMAIN cmds : Failed(k)

\* C36: a command that settles with an error envelope leaves the host
\* document unchanged; in particular a create_rectangle that fails with
\* 'Parent node not found' or 'Parent node does not support children' and a
\* clone_node that fails with 'Cloned node does not support position' leave
\* no new node in the document: when every command received has settled with
\* an error, the document is the one the run started with.
C36_ErrorLeavesDocument ==
  AllFailed => doc = CreateDoc

\* A handler that throws before it has created a node leaves the document
\* as it was: when every command received has failed and none of them had
\* created a node, the document is the one the run started with.
C36_ErrorBeforeCreation ==
  (AllFailed /\ \A k \in DOMAIN cmds : cmds[k].created = None) => doc = CreateDoc

----------------------------------------------------------------------------
(* C37: the node create_component_instance returns *)

IsInstanceCommand(c) == c.command = "create_component_instance"

\* Every command received so far is a create_component_instance that has
\* settled with a result.
AllInstantiated ==
  /\ inbox = <<>>
  /\ cmds # <<>>
  /\ \A k \in DOMAIN cmds : IsInstanceCommand(cmds[k]) /\ Completed(k)

\* The node command k returned is an instance of the component with the key
\* the command asked for.
ReturnedInstanceOfKey(k) ==
  LET id == Result(k).id
  IN /\ id \in DOMAIN doc
     /\ doc[id].type = "INSTANCE"
     /\ doc[id].mainKey = Val(cmds[k].params.componentKey)

\* C37: whenever create_component_instance settles successfully, through
\* direct import, local search or the clone fallback, the node it returns is
\* an instance of the component identified by the requested componentKey,
\* and exactly one new node has been added to the document (one per command,
\* each returning a node of its own, when several have run).
C37_InstanceOfRequestedKey ==
  AllInstantiated =>
    /\ \A k \in DOMAIN cmds : ReturnedInstanceOfKey(k)
    /\ Cardinality(DOMAIN doc) = Cardinality(DOMAIN CreateDoc) + Len(cmds)
    /\ \A k, j \in DOMAIN cmds : k # j => Result(k).id # Result(j).id

\* The same for the commands that did not go through the clone fallback, and
\* the count of new nodes for all of them.
C37_DirectCreation ==
  AllInstantiated =>
    /\ \A k \in DOMAIN cmds :
         Result(k).method = "direct_creation" => ReturnedInstanceOfKey(k)
    /\ Cardinality(DOMAIN doc) = Cardinality(DOMAIN CreateDoc) + Len(cmds)
    /\ \A k, j \in DOMAIN cmds : k # j => Result(k).id # Result(j).id

====
